---- MODULE Spec2Model ----
(***************************************************************************)
(* A model of the SAM "create new application" wizard                       *)
(* (src/lambda/wizards/samInitWizard.ts) and of the quick-pick prompt       *)
(* bridge it is built on (shared/ui/picker.ts, kept in this snapshot as the *)
(* second half of src/shared/sam/cli/samCliConfiguration.ts).               *)
(*                                                                          *)
(* Two state machines share the module:                                     *)
(*   WizardSpec  : CreateNewSamAppWizard driven by MultiStepWizard.run()    *)
(*   PromptSpec  : promptUser / promptUserWithBusyMessage on one QuickPick, *)
(*                 followed by the caller's verifySinglePickerOutput        *)
(***************************************************************************)
EXTENDS Integers, Sequences, FiniteSets, TLC

\* JavaScript's undefined, for values that are otherwise strings.
Undefined == "undefined"

(***************************************************************************)
(* Bounds                                                                   *)
(***************************************************************************)
\* Step-function invocations explored in one run() (back-navigation makes
\* the number of invocations unbounded in the code).
MaxInvocations == 9

\* Items the user may have selected at once (the QuickPick type allows many).
MaxSelected == 2

\* The telemetry event arrays toMetricData is applied to have at most
\* MaxEvents events, each with at most MaxData data entries.
MaxEvents == 2
MaxData == 2

\* Folder pickers shown by one call of promptUserForLocation (every cancelled
\* Open Folder dialog shows another, without limit in the code).
MaxLocationPrompts == 4

\* Calls of promptUserForTemplate on one wizard context (the TEMPLATE step is
\* entered again after every navigation back, without limit in the code).
MaxTemplatePrompts == 6

(***************************************************************************)
(* Part 1 - CreateNewSamAppWizard                                           *)
(***************************************************************************)
VARIABLES
    runtime, template, region, registryName, schemaName, location, name,
        \* the private fields of CreateNewSamAppWizard (the response in progress)
    step,          \* run()'s local `step`: the step to invoke next, or Undefined
    wpc,           \* where run() stands: "created", "ready", "awaiting", "done",
                   \* or "threw" (the promise run() returned is rejected)
    result,        \* what run() returned (meaningful once wpc = "done")
    invocations,   \* number of step functions invoked so far
    lastStep,      \* the step function invoked most recently
    path,          \* the values `step` has pointed to, the start step first
    running,       \* the step functions invoked and not yet returned
    before,        \* what its field held before the step that returned last
                   \* assigned it
    currValue,     \* what the step invoked last passed to its prompt as the
                   \* current value of its field
    cancellations, \* number of prompts that yielded undefined so far
    sinceCancel    \* number of step functions invoked since the last of them

wizardVars == <<runtime, template, region, registryName, schemaName, location,
                name, step, wpc, result, invocations, lastStep, path, running,
                before, currValue, cancellations, sinceCancel>>

\* The state of Part 2 (the prompt bridge), declared here so that every action
\* of either part can say what it leaves alone.
VARIABLES
    \* the vscode.QuickPick handed to promptUser / promptUserWithBusyMessage
    visible,         \* the picker is on screen
    enabled, busy,   \* picker.enabled, picker.busy
    items,           \* picker.items
    selectedItems,   \* picker.selectedItems
    subscribed,      \* the listeners currently registered on the picker's events
    hideEcho,        \* picker.hide() was called on a visible picker and its
                     \* onDidHide event has not been delivered yet
    \* promptUser
    handler,         \* the onDidTriggerButton argument: "none", "wizard", "custom"
    ppc,             \* "idle", "executor", "await", "returned"
    pstmt,           \* the statement of the promise executor to run next
    disposables,     \* promptUser's local `disposables`
    promise,         \* the promise created at line 164
    \* promptUserWithBusyMessage
    bpc,             \* its promise executor: "idle", "executor", "await",
                     \* "populated", "threw"
    bstmt,           \* the statement of that executor to run next
    busyDisposables, \* promptUserWithBusyMessage's local `disposables`
    busyPromise,     \* the Promise<boolean> created at line 236
    tpc,             \* its .then callback: "idle", "waiting", "done"
    populator,       \* the populator promise: "none", "pending", "resolved",
                     \* "rejected"
    \* the caller (promptUserFor... in the wizard context)
    outcome,         \* the promise the caller awaits
    cpc,             \* "start", "calling", "verified", "threw"
    val,             \* the caller's `val`
    warnings,        \* what was passed to logger.warn
    \* history, for stating the claims
    settledBy,       \* the event whose callback settled `promise`
    acceptedSel,     \* picker.selectedItems when that accept event fired
    lateEvent,       \* the last event delivered to a listener of promptUser
                     \* after `promise` had settled
    pressed,         \* the last button passed to the onDidTriggerButton handler
    hideWhileBusy    \* a hide event reached promptUserWithBusyMessage's
                     \* listener while the populator was still pending

busyVars == <<bpc, bstmt, busyDisposables, busyPromise, tpc, populator,
              hideWhileBusy>>

promptVars == <<visible, enabled, busy, items, selectedItems, subscribed, hideEcho,
                handler, ppc, pstmt, disposables, promise, outcome, cpc, val,
                warnings, settledBy, acceptedSel, lateEvent, pressed,
                busyVars>>

\* The state of Part 3 (viewSchemaItem).
VARIABLES
    vpc,             \* where viewSchemaItem stands: "idle", "describe", "write",
                     \* "show", "catch", "finally", "done"
    node,            \* the SchemaItemNode: its client's regionCode, its
                     \* registryName and schemaName
    profile,         \* awsContext.getCredentialProfileName()
    response,        \* what describeSchema resolved with
    fileName,        \* the local `fileName`
    schemaContentTempFile,  \* the local `schemaContentTempFile`
    tempDir,         \* the files of tempDirPath: a set of [path, content]
    opened,          \* the arguments of the calls of showTextDocument
    viewResult,      \* the local `viewResult`
    errorMessages,   \* the calls of vscode.window.showErrorMessage
    recorded,        \* the calls of recordSchemasView
    thrownBy         \* the call inside the try block that threw, or "none"

viewVars == <<vpc, node, profile, response, fileName, schemaContentTempFile,
              tempDir, opened, viewResult, errorMessages, recorded, thrownBy>>

\* The state of Part 4 (toMetricData).
VARIABLES
    mpc,             \* "idle", "pushed" (the event array is built), "done"
    eventArray,      \* the TelemetryEvent[] passed to toMetricData
    data             \* the MetricDatum[] it returned

metricVars == <<mpc, eventArray, data>>

\* The state of Part 5 (promptUserForLocation).
VARIABLES
    lpc,              \* "idle", "picker" (awaiting picker.promptUser), "dialog"
                      \* (awaiting the Browse item's getUri), "returned"
    workspaceFolders, \* this.workspaceFolders, as the folders' URIs
    locPrompts,       \* folder pickers shown so far, the recursive calls included
    locChoices,       \* `choices` of the innermost call
    pickerResponse,   \* `pickerResponse` of the innermost call
    locationUri       \* what promptUserForLocation returned

locationVars == <<lpc, workspaceFolders, locPrompts, locChoices, pickerResponse,
                  locationUri>>

\* The state of Part 6 (promptUserForTemplate on one wizard context).
VARIABLES
    tplpc,                     \* "idle", or "awaiting" picker.promptUser
    lambdaTemplatesHelloWorld, \* the context's field of that name
    currRuntime,               \* the runtime the call in progress, or the
                               \* last call, was given
    offeredTemplates,          \* the labels of the items of its picker
    templatePrompts,           \* calls made on this context so far
    templateVal                \* what the last call returned

templateVars == <<tplpc, lambdaTemplatesHelloWorld, currRuntime,
                  offeredTemplates, templatePrompts, templateVal>>

\* The state of Part 7 (DefaultSamCliConfiguration.initialize).
VARIABLES
    ipc,              \* "new" (not constructed), "idle", "fileExists",
                      \* "getLocation", "writeSetting" (each an await), "done"
    samcliLocation,   \* the setting 'samcli.location' of the configuration
    files,            \* the paths at which a file exists
    configLocation,   \* initialize's local of that name
    detectedLocation, \* initialize's local of that name
    writes            \* the values passed to writeSetting, in order

configVars == <<ipc, samcliLocation, files, configLocation, detectedLocation,
                writes>>

\* The state of the parts after Part 2.
otherVars == <<viewVars, metricVars, locationVars, templateVars, configVars>>

\* What the actions of Part 3, 4, 5, 6 and 7 leave alone.
notViewVars == <<wizardVars, promptVars, metricVars, locationVars, templateVars,
                 configVars>>
notMetricVars == <<wizardVars, promptVars, viewVars, locationVars, templateVars,
                   configVars>>
notLocationVars == <<wizardVars, promptVars, viewVars, metricVars, templateVars,
                     configVars>>
notTemplateVars == <<wizardVars, promptVars, viewVars, metricVars, locationVars,
                     configVars>>
notConfigVars == <<wizardVars, promptVars, viewVars, metricVars, locationVars,
                   templateVars>>

allVars == <<wizardVars, promptVars, otherVars>>

Runtimes   == {"python3.7", "nodejs10.x"}
Templates  == {"helloWorld", "eventBridge-schema-app"}
Regions    == {"us-east-1", "us-west-2"}
Registries == {"aws.events", "discovered-schemas"}
Schemas    == {"aws.ec2@Event", "aws.s3@Event"}
Locations  == {"file:///ws/a", "file:///ws/b"}
Names      == {"app1", "app2"}

StepIds == {"RUNTIME", "TEMPLATE", "REGION", "REGISTRY", "SCHEMA", "LOCATION", "NAME"}

\* A value a prompt may yield: one of its choices, or undefined (cancel/back).
Maybe(S) == S \cup {Undefined}

\* run() returned undefined.
NoResult == [kind |-> "undefined"]

\* A mutation of getResult that has lost its guard: it always assembles.
getResult_NoGuard(rt, tp, rg, rn, sn, loc, nm) ==
         [kind |-> "response", runtime |-> rt, template |-> tp, region |-> rg,
          registryName |-> rn, schemaName |-> sn, location |-> loc, name |-> nm]

\* A mutation of getResult that crosses two fields of the response.
getResult_Crossed(rt, tp, rg, rn, sn, loc, nm) ==
    IF rt = Undefined \/ tp = Undefined \/ loc = Undefined \/ nm = Undefined
    THEN NoResult
    ELSE [kind |-> "response", runtime |-> rt, template |-> tp, region |-> rg,
          registryName |-> sn, schemaName |-> rn, location |-> loc, name |-> nm]

\* A mutation of getResult whose guard has lost its negations.
getResult_Inverted(rt, tp, rg, rn, sn, loc, nm) ==
    IF rt # Undefined /\ tp # Undefined /\ loc # Undefined /\ nm # Undefined
    THEN NoResult
    ELSE [kind |-> "response", runtime |-> rt, template |-> tp, region |-> rg,
          registryName |-> rn, schemaName |-> sn, location |-> loc, name |-> nm]

\* A mutation of getResult: region, registryName and schemaName are copied
\* only for the template 'eventBridge-schema-app'.
getResult_OnlyForSchemaApp(rt, tp, rg, rn, sn, loc, nm) ==
    IF rt = Undefined \/ tp = Undefined \/ loc = Undefined \/ nm = Undefined
    THEN NoResult
    ELSE IF tp = "eventBridge-schema-app"
    THEN [kind |-> "response", runtime |-> rt, template |-> tp, region |-> rg,
          registryName |-> rn, schemaName |-> sn, location |-> loc, name |-> nm]
    ELSE [kind |-> "response", runtime |-> rt, template |-> tp,
          region |-> Undefined, registryName |-> Undefined,
          schemaName |-> Undefined, location |-> loc, name |-> nm]

\* CreateNewSamAppWizard.getResult, on the fields' values at the time of the call.
getResult(rt, tp, rg, rn, sn, loc, nm) ==
    IF rt = Undefined \/ tp = Undefined \/ loc = Undefined \/ nm = Undefined
    THEN NoResult
    ELSE [kind |-> "response", runtime |-> rt, template |-> tp, region |-> rg,
          registryName |-> rn, schemaName |-> sn, location |-> loc, name |-> nm]

\* CreateNewSamAppWizard.startStep
startStep == "RUNTIME"

\* MultiStepWizard.run(), after a step's promise settled with `next`:
\*     while (step) { step = await step() }   return this.getResult()
\* The step functions of this wizard return a step or undefined and nothing
\* else, so undefined is the one value that ends the loop; the result is then
\* assembled by getResult from the fields as they are at that moment.
Loop(next, rt, tp, rg, rn, sn, loc, nm) ==
    /\ step' = next
    /\ path' = IF next = Undefined THEN path ELSE Append(path, next)
    /\ IF next = Undefined
       THEN /\ wpc' = "done"
            /\ result' = getResult(rt, tp, rg, rn, sn, loc, nm)
       ELSE /\ wpc' = "ready"
            /\ result' = result

\* run() is called: let step = this.startStep
run ==
    /\ wpc = "created"
    /\ step' = startStep
    /\ path' = <<startStep>>
    /\ wpc' = "ready"
    /\ UNCHANGED <<promptVars, otherVars>>
    /\ UNCHANGED <<runtime, template, region, registryName, schemaName, location,
                   name, result, invocations, lastStep, running, before,
                   currValue, cancellations, sinceCancel>>

\* The argument step s passes for the current-value parameter of its prompt
\* (currRuntime, currTemplate, currRegion, currRegistry, currSchema):
\*     promptUserForRuntime(this.runtime)
\*     promptUserForTemplate(this.runtime!)        no currTemplate
\*     promptUserForRegion()                       no currRegion
\*     promptUserForRegistry(this.region!)         no currRegistry
\*     promptUserForSchema(this.region!)           no currSchema
\* promptUserForLocation and promptUserForName have no such parameter.
CurrentValueArg(s, rt) == IF s = "RUNTIME" THEN rt ELSE Undefined

\* run() invokes the current step function, which runs up to its
\* `await this.context.promptUserFor...()`.
InvokeStep ==
    /\ wpc = "ready"
    /\ invocations < MaxInvocations
    /\ wpc' = "awaiting"
    /\ invocations' = invocations + 1
    /\ lastStep' = step
    /\ running' = running \cup {step}
    /\ currValue' = CurrentValueArg(step, runtime)
    /\ sinceCancel' = sinceCancel + 1
    /\ UNCHANGED <<promptVars, otherVars>>
    /\ UNCHANGED <<runtime, template, region, registryName, schemaName, location,
                   name, step, result, path, before, cancellations>>

\* What a prompt's outcome v adds to the number of cancellations: the prompts
\* yield undefined when the user hides the picker or presses Back.
Cancelled(v) == IF v = Undefined THEN 1 ELSE 0

\* Which step function is suspended on its prompt.
Awaiting(s) == wpc = "awaiting" /\ step = s

\* RUNTIME: return this.runtime ? this.TEMPLATE : undefined
RUNTIME_next(rt) == IF rt # Undefined THEN "TEMPLATE" ELSE Undefined

\* A mutation of RUNTIME: a runtime already chosen is kept.
RUNTIME_KeepsFirst(v) ==
    /\ Awaiting("RUNTIME")
    /\ runtime' = IF runtime # Undefined THEN runtime ELSE v
    /\ before' = runtime
    /\ cancellations' = cancellations + Cancelled(v)
    /\ sinceCancel' = IF v = Undefined THEN 0 ELSE sinceCancel
    /\ running' = running \ {"RUNTIME"}
    /\ UNCHANGED <<promptVars, otherVars>>
    /\ UNCHANGED <<template, region, registryName, schemaName, location, name,
                   invocations, lastStep, currValue>>
    /\ Loop(RUNTIME_next(runtime'), runtime', template, region, registryName,
            schemaName, location, name)

\* The RUNTIME step resumes with the prompt's outcome v.
RUNTIME(v) ==
    /\ Awaiting("RUNTIME")
    /\ runtime' = v
    /\ before' = runtime
    /\ cancellations' = cancellations + Cancelled(v)
    /\ sinceCancel' = IF v = Undefined THEN 0 ELSE sinceCancel
    /\ running' = running \ {"RUNTIME"}
    /\ UNCHANGED <<promptVars, otherVars>>
    /\ UNCHANGED <<template, region, registryName, schemaName, location, name,
                   invocations, lastStep, currValue>>
    /\ Loop(RUNTIME_next(v), v, template, region, registryName, schemaName,
            location, name)

\* A mutation of TEMPLATE: with no template it returns something that is
\* neither a step nor undefined.
TEMPLATE_next_NoStep(tp) ==
    IF tp = "eventBridge-schema-app" THEN "REGION"
    ELSE IF tp # Undefined THEN "LOCATION" ELSE "null"

\* TEMPLATE: eventBridge-schema-app goes to REGION, another template to
\* LOCATION, no template back to RUNTIME.
TEMPLATE_next(tp) ==
    IF tp = "eventBridge-schema-app" THEN "REGION"
    ELSE IF tp # Undefined THEN "LOCATION" ELSE "RUNTIME"

\* A mutation of TEMPLATE: a cancelled prompt leaves the template as it was.
TEMPLATE_KeepsOld(v) ==
    /\ Awaiting("TEMPLATE")
    /\ template' = IF v = Undefined THEN template ELSE v
    /\ before' = template
    /\ cancellations' = cancellations + Cancelled(v)
    /\ sinceCancel' = IF v = Undefined THEN 0 ELSE sinceCancel
    /\ running' = running \ {"TEMPLATE"}
    /\ UNCHANGED <<promptVars, otherVars>>
    /\ UNCHANGED <<runtime, region, registryName, schemaName, location, name,
                   invocations, lastStep, currValue>>
    /\ Loop(TEMPLATE_next(template'), runtime, template', region, registryName,
            schemaName, location, name)

\* The TEMPLATE step resumes with the prompt's outcome v.
TEMPLATE(v) ==
    /\ Awaiting("TEMPLATE")
    /\ template' = v
    /\ before' = template
    /\ cancellations' = cancellations + Cancelled(v)
    /\ sinceCancel' = IF v = Undefined THEN 0 ELSE sinceCancel
    /\ running' = running \ {"TEMPLATE"}
    /\ UNCHANGED <<promptVars, otherVars>>
    /\ UNCHANGED <<runtime, region, registryName, schemaName, location, name,
                   invocations, lastStep, currValue>>
    /\ Loop(TEMPLATE_next(v), runtime, v, region, registryName, schemaName,
            location, name)

\* REGION: return this.region ? this.REGISTRY : this.TEMPLATE
REGION_next(rg) == IF rg # Undefined THEN "REGISTRY" ELSE "TEMPLATE"

REGION(v) ==
    /\ Awaiting("REGION")
    /\ region' = v
    /\ before' = region
    /\ cancellations' = cancellations + Cancelled(v)
    /\ sinceCancel' = IF v = Undefined THEN 0 ELSE sinceCancel
    /\ running' = running \ {"REGION"}
    /\ UNCHANGED <<promptVars, otherVars>>
    /\ UNCHANGED <<runtime, template, registryName, schemaName, location, name,
                   invocations, lastStep, currValue>>
    /\ Loop(REGION_next(v), runtime, template, v, registryName, schemaName,
            location, name)

\* A mutation of REGISTRY: with a registry chosen it goes on to LOCATION.
REGISTRY_next_SkipsSchema(rn) == IF rn # Undefined THEN "LOCATION" ELSE "TEMPLATE"

\* A mutation of REGISTRY: with a registry chosen it returns to REGION.
REGISTRY_next_Loops(rn) == IF rn # Undefined THEN "REGION" ELSE "TEMPLATE"

\* REGISTRY: return this.registryName ? this.SCHEMA : this.TEMPLATE
REGISTRY_next(rn) == IF rn # Undefined THEN "SCHEMA" ELSE "TEMPLATE"

REGISTRY(v) ==
    /\ Awaiting("REGISTRY")
    /\ registryName' = v
    /\ before' = registryName
    /\ cancellations' = cancellations + Cancelled(v)
    /\ sinceCancel' = IF v = Undefined THEN 0 ELSE sinceCancel
    /\ running' = running \ {"REGISTRY"}
    /\ UNCHANGED <<promptVars, otherVars>>
    /\ UNCHANGED <<runtime, template, region, schemaName, location, name,
                   invocations, lastStep, currValue>>
    /\ Loop(REGISTRY_next(v), runtime, template, region, v, schemaName,
            location, name)

\* A mutation of SCHEMA: on success it returns something that is no step.
SCHEMA_next_Lost(sn) == IF sn # Undefined THEN "LOCATIONS" ELSE "REGISTRY"

\* SCHEMA: return this.schemaName ? this.LOCATION : this.REGISTRY
SCHEMA_next(sn) == IF sn # Undefined THEN "LOCATION" ELSE "REGISTRY"

SCHEMA(v) ==
    /\ Awaiting("SCHEMA")
    /\ schemaName' = v
    /\ before' = schemaName
    /\ cancellations' = cancellations + Cancelled(v)
    /\ sinceCancel' = IF v = Undefined THEN 0 ELSE sinceCancel
    /\ running' = running \ {"SCHEMA"}
    /\ UNCHANGED <<promptVars, otherVars>>
    /\ UNCHANGED <<runtime, template, region, registryName, location, name,
                   invocations, lastStep, currValue>>
    /\ Loop(SCHEMA_next(v), runtime, template, region, registryName, v,
            location, name)

\* A mutation of LOCATION: no location ends the wizard, as in RUNTIME.
LOCATION_next_Abort(loc, tp) == IF loc = Undefined THEN Undefined ELSE "NAME"

\* LOCATION: no location goes back to TEMPLATE (on both branches of the
\* template test), a location goes on to NAME.
LOCATION_next(loc, tp) ==
    IF loc = Undefined
    THEN (IF tp = "eventBridge-schema-app" THEN "TEMPLATE" ELSE "TEMPLATE")
    ELSE "NAME"

LOCATION(v) ==
    /\ Awaiting("LOCATION")
    /\ location' = v
    /\ before' = location
    /\ cancellations' = cancellations + Cancelled(v)
    /\ sinceCancel' = IF v = Undefined THEN 0 ELSE sinceCancel
    /\ running' = running \ {"LOCATION"}
    /\ UNCHANGED <<promptVars, otherVars>>
    /\ UNCHANGED <<runtime, template, region, registryName, schemaName, name,
                   invocations, lastStep, currValue>>
    /\ Loop(LOCATION_next(v, template), runtime, template, region, registryName,
            schemaName, v, name)

\* A mutation of NAME: it ends the run whether or not a name was entered.
NAME_next_EndsAlways(nm) == Undefined

\* NAME: return this.name ? undefined : this.LOCATION
NAME_next(nm) == IF nm # Undefined THEN Undefined ELSE "LOCATION"

NAME(v) ==
    /\ Awaiting("NAME")
    /\ name' = v
    /\ before' = name
    /\ cancellations' = cancellations + Cancelled(v)
    /\ sinceCancel' = IF v = Undefined THEN 0 ELSE sinceCancel
    /\ running' = running \ {"NAME"}
    /\ UNCHANGED <<promptVars, otherVars>>
    /\ UNCHANGED <<runtime, template, region, registryName, schemaName, location,
                   invocations, lastStep, currValue>>
    /\ Loop(NAME_next(v), runtime, template, region, registryName, schemaName,
            location, v)

\* The steps whose prompt first calls a service: promptUserForRegistry awaits
\* client.listRegistries(), promptUserForSchema awaits client.listSchemas().
ExternalCallSteps == {"REGISTRY", "SCHEMA"}

\* MultiStepWizard.run(), when the promise of the step it awaits is rejected:
\* there is no try/catch around `await step()`, so run() is rejected too and
\* the loop is left where it was.
Propagate ==
    /\ wpc' = "threw"
    /\ UNCHANGED <<step, result, path>>

\* A mutation of the steps: the exception is caught and the wizard goes back
\* to TEMPLATE.
StepThrows_CaughtGoesBack(s) ==
    /\ Awaiting(s)
    /\ s \in ExternalCallSteps
    /\ running' = running \ {s}
    /\ step' = "TEMPLATE"
    /\ path' = Append(path, "TEMPLATE")
    /\ wpc' = "ready"
    /\ UNCHANGED <<promptVars, otherVars>>
    /\ UNCHANGED <<runtime, template, region, registryName, schemaName, location,
                   name, result, invocations, lastStep, before,
                   currValue, cancellations, sinceCancel>>

\* The external call of step s throws: the context's prompt is rejected
\* before any picker is created, the step's `await` throws before the
\* assignment to the step's field, and the step has no try/catch.
StepThrows(s) ==
    /\ Awaiting(s)
    /\ s \in ExternalCallSteps
    /\ running' = running \ {s}
    /\ Propagate
    /\ UNCHANGED <<promptVars, otherVars>>
    /\ UNCHANGED <<runtime, template, region, registryName, schemaName, location,
                   name, invocations, lastStep, before,
                   currValue, cancellations, sinceCancel>>

WizardInit ==
    /\ runtime = Undefined
    /\ template = Undefined
    /\ region = Undefined
    /\ registryName = Undefined
    /\ schemaName = Undefined
    /\ location = Undefined
    /\ name = Undefined
    /\ step = Undefined
    /\ wpc = "created"
    /\ result = NoResult
    /\ invocations = 0
    /\ lastStep = Undefined
    /\ path = <<>>
    /\ running = {}
    /\ before = Undefined
    /\ currValue = Undefined
    /\ cancellations = 0
    /\ sinceCancel = 0

WizardNext ==
    \/ run
    \/ InvokeStep
    \/ \E v \in Maybe(Runtimes) : RUNTIME(v)
    \/ \E v \in Maybe(Templates) : TEMPLATE(v)
    \/ \E v \in Maybe(Regions) : REGION(v)
    \/ \E v \in Maybe(Registries) : REGISTRY(v)
    \/ \E v \in Maybe(Schemas) : SCHEMA(v)
    \/ \E v \in Maybe(Locations) : LOCATION(v)
    \/ \E v \in Maybe(Names) : NAME(v)
    \/ \E s \in ExternalCallSteps : StepThrows(s)


(***************************************************************************)
(* Part 2 - the quick-pick prompt bridge                                    *)
(***************************************************************************)

\* The items the picker is created with.
InitialItems == <<"A", "B", "C">>

\* The picker's buttons: [this.helpButton, vscode.QuickInputButtons.Back]
Buttons == {"Help", "Back"}

\* What may be passed as onDidTriggerButton: nothing, the handler every step of
\* the wizard passes, or some other function of (button, resolve, reject).
Handlers == {"none", "wizard", "custom"}

\* What a caller-supplied handler may do with resolve and reject.
CustomEffects == {"resolveItems", "resolveUndefined", "reject", "nothing"}

Range(f) == {f[i] : i \in DOMAIN f}

\* The sequences over the elements of `its`, without repetition, of at most n
\* elements: what picker.selectedItems may hold.
RECURSIVE SelectionsOf(_, _)
SelectionsOf(its, n) ==
    IF n = 0 THEN {<<>>}
    ELSE LET shorter == SelectionsOf(its, n - 1)
         IN  shorter \cup {Append(q, x) : q \in shorter, x \in Range(its)}

Selections(its) ==
    {q \in SelectionsOf(its, MaxSelected) :
        \A i, j \in DOMAIN q : i # j => q[i] # q[j]}

\* A promise: pending, resolved with a value, or rejected.
Pending == [state |-> "pending"]
Resolved(v) == [state |-> "resolved", value |-> v]
Rejected == [state |-> "rejected"]

\* The values of Promise<T[] | undefined>.
NoChoices == [defined |-> FALSE]
Choices(q) == [defined |-> TRUE, items |-> q]

\* A mutation of resolve: the last call wins.
resolve_LastWins(p, v) == IF p.state = "rejected" THEN p ELSE Resolved(v)

\* The resolve function of `new Promise((resolve, reject) => ...)`: only the
\* first call of resolve or reject settles the promise.
resolve(p, v) == IF p.state = "pending" THEN Resolved(v) ELSE p

\* The reject function of the same promise.
reject(p) == IF p.state = "pending" THEN Rejected ELSE p

\* A mutation of Array.from: only the first selected item is copied.
ArrayFrom_First(q) == IF Len(q) = 0 THEN <<>> ELSE <<q[1]>>

\* Array.from(picker.selectedItems): a new array with the same elements.
ArrayFrom(q) == [i \in 1..Len(q) |-> q[i]]

\* The listeners promptUser registers, by the event they listen to.
Listener(owner, event) == [owner |-> owner, event |-> event]

\* A mutation of the executor: the picker is shown first.
ExecutorOrder_ShowFirst == <<"show", "onDidAccept", "onDidHide", "onDidTriggerButton">>

\* The statements of promptUser's promise executor, in program order.
ExecutorOrder == <<"onDidAccept", "onDidHide", "onDidTriggerButton", "show">>

\* Whether statement s of the executor registers a listener.
Registers(s, h) ==
    \/ s \in {"onDidAccept", "onDidHide"}
    \/ s = "onDidTriggerButton" /\ h # "none"

\* No synchronous code is running: an event can be dispatched.
JsIdle == ppc # "executor" /\ bpc # "executor"

\* promptUser({ picker, onDidTriggerButton }) is called: the function runs
\* up to the promise executor.
EnterPromptUser(h) ==
    /\ handler' = h
    /\ ppc' = "executor"
    /\ pstmt' = 1
    /\ disposables' = <<>>
    /\ promise' = Pending

promptUser(h) ==
    /\ cpc = "start"
    /\ cpc' = "calling"
    /\ EnterPromptUser(h)
    /\ UNCHANGED busyVars
    /\ UNCHANGED pressed
    /\ UNCHANGED <<wizardVars, otherVars>>
    /\ UNCHANGED <<visible, enabled, busy, items, selectedItems, subscribed,
                   hideEcho, outcome, val, warnings, settledBy, acceptedSel,
                   lateEvent>>

\* One statement of the promise executor.
PU_Executor ==
    /\ ppc = "executor"
    /\ LET s == ExecutorOrder[pstmt] IN
       /\ IF Registers(s, handler)
          THEN /\ subscribed' = subscribed \cup {Listener("promptUser", s)}
               /\ disposables' = Append(disposables, Listener("promptUser", s))
          ELSE UNCHANGED <<subscribed, disposables>>
       /\ visible' = IF s = "show" THEN TRUE ELSE visible
    /\ IF pstmt = Len(ExecutorOrder)
       THEN ppc' = "await" /\ pstmt' = pstmt
       ELSE ppc' = ppc /\ pstmt' = pstmt + 1
    /\ UNCHANGED busyVars
    /\ UNCHANGED pressed
    /\ UNCHANGED <<wizardVars, otherVars>>
    /\ UNCHANGED <<enabled, busy, items, selectedItems, hideEcho, handler,
                   promise, outcome, cpc, val, warnings, settledBy, acceptedSel,
                   lateEvent>>

\* The history kept when an event of kind ev moves `promise` to its next value.
Noted(ev, delivered) ==
    /\ settledBy' = IF promise.state = "pending" /\ promise' # promise
                    THEN ev ELSE settledBy
    /\ lateEvent' = IF delivered /\ promise.state # "pending"
                    THEN ev ELSE lateEvent

\* A mutation of the accept listener: an empty selection counts as a cancel.
onDidAcceptListener_EmptyCancels(p, sel) ==
    IF Len(sel) = 0 THEN resolve(p, NoChoices)
    ELSE resolve(p, Choices(ArrayFrom(sel)))

\* The listener promptUser registers on picker.onDidAccept:
\*     () => { resolve(Array.from(picker.selectedItems)) }
onDidAcceptListener(p, sel) == resolve(p, Choices(ArrayFrom(sel)))

\* The user accepts the current selection: onDidAccept fires.
UserAccept ==
    /\ JsIdle /\ visible /\ enabled
    /\ LET delivered == Listener("promptUser", "onDidAccept") \in subscribed IN
       /\ promise' = IF delivered
                     THEN onDidAcceptListener(promise, selectedItems)
                     ELSE promise
       /\ acceptedSel' = IF delivered /\ promise.state = "pending"
                         THEN selectedItems ELSE acceptedSel
       /\ Noted("accept", delivered)
    /\ UNCHANGED busyVars
    /\ UNCHANGED pressed
    /\ UNCHANGED <<wizardVars, otherVars>>
    /\ UNCHANGED <<visible, enabled, busy, items, selectedItems, subscribed,
                   hideEcho, handler, ppc, pstmt, disposables, outcome, cpc, val,
                   warnings>>

\* A mutation of the busy-phase hide listener: it does nothing.
busyHideListener_Ignores(p) == p

\* The hide listener of promptUserWithBusyMessage:  () => { resolve(false) }
busyHideListener(p) == resolve(p, FALSE)

\* onDidHide is delivered to the listeners registered at that time.
\*     () => { resolve(undefined) }
\* and, from promptUserWithBusyMessage's listener,
\*     () => { resolve(false) }
DeliverHide ==
    LET delivered == Listener("promptUser", "onDidHide") \in subscribed
        toBusy == Listener("promptUserWithBusyMessage", "onDidHide") \in subscribed
    IN
    /\ promise' = IF delivered THEN resolve(promise, NoChoices) ELSE promise
    /\ Noted("hide", delivered)
    /\ busyPromise' = IF toBusy THEN busyHideListener(busyPromise) ELSE busyPromise
    /\ hideWhileBusy' = (hideWhileBusy \/ (toBusy /\ populator = "pending"))

\* The user dismisses the picker (Esc).
UserHide ==
    /\ JsIdle /\ visible
    /\ visible' = FALSE
    /\ DeliverHide
    /\ UNCHANGED <<bpc, bstmt, busyDisposables, tpc, populator>>
    /\ UNCHANGED pressed
    /\ UNCHANGED <<wizardVars, otherVars>>
    /\ UNCHANGED <<enabled, busy, items, selectedItems, subscribed, hideEcho,
                   handler, ppc, pstmt, disposables, outcome, cpc, val, warnings,
                   acceptedSel>>

\* The onDidHide event that follows a call of picker.hide().
HideEcho ==
    /\ JsIdle /\ hideEcho
    /\ hideEcho' = FALSE
    /\ DeliverHide
    /\ UNCHANGED <<bpc, bstmt, busyDisposables, tpc, populator>>
    /\ UNCHANGED pressed
    /\ UNCHANGED <<wizardVars, otherVars>>
    /\ UNCHANGED <<visible, enabled, busy, items, selectedItems, subscribed,
                   handler, ppc, pstmt, disposables, outcome, cpc, val, warnings,
                   acceptedSel>>

\* The user changes the selection.
UserSelect(q) ==
    /\ JsIdle /\ visible /\ enabled
    /\ q # selectedItems
    /\ selectedItems' = q
    /\ UNCHANGED busyVars
    /\ UNCHANGED pressed
    /\ UNCHANGED <<wizardVars, otherVars>>
    /\ UNCHANGED <<visible, enabled, busy, items, subscribed, hideEcho, handler,
                   ppc, pstmt, disposables, promise, outcome, cpc, val, warnings,
                   settledBy, acceptedSel, lateEvent>>

\* A mutation of the wizard's handler: every button resolves.
wizardButtonHandler_AnyButton(b, p) == resolve(p, NoChoices)

\* A mutation of the wizard's handler: Back rejects the prompt.
wizardButtonHandler_RejectsOnBack(b, p) == IF b = "Back" THEN reject(p) ELSE p

\* The handler every step of the wizard passes (samInitWizard.ts):
\*     if (button === Back) { resolve(undefined) }
\*     else if (button === this.helpButton) { vscode.env.openExternal(...) }
wizardButtonHandler(b, p) == IF b = "Back" THEN resolve(p, NoChoices) ELSE p

\* Some other handler, doing e with the resolve and reject it is given.
customButtonHandler(e, p, q) ==
    CASE e = "resolveItems"     -> resolve(p, Choices(q))
      [] e = "resolveUndefined" -> resolve(p, NoChoices)
      [] e = "reject"           -> reject(p)
      [] e = "nothing"          -> p

\* The user presses button b: onDidTriggerButton fires.
\*     (btn) => onDidTriggerButton(btn, resolve, reject)
UserButton(b, e) ==
    /\ JsIdle /\ visible /\ enabled
    /\ LET delivered == Listener("promptUser", "onDidTriggerButton") \in subscribed IN
       /\ promise' = IF ~delivered THEN promise
                     ELSE IF handler = "wizard" THEN wizardButtonHandler(b, promise)
                     ELSE customButtonHandler(e, promise, selectedItems)
       /\ Noted("button", delivered)
       /\ pressed' = IF delivered THEN b ELSE pressed
    /\ UNCHANGED busyVars
    /\ UNCHANGED <<wizardVars, otherVars>>
    /\ UNCHANGED <<visible, enabled, busy, items, selectedItems, subscribed,
                   hideEcho, handler, ppc, pstmt, disposables, outcome, cpc, val,
                   warnings, acceptedSel>>

\* A mutation of try/finally: the clean-up follows the await instead, so a
\* rejection skips it.
FinallyRuns_OnlyOnSuccess(p) == p.state = "resolved"

\* try { ... await ... } finally { ... }: the finally block runs however the
\* awaited promise settled.
FinallyRuns(p) == p.state \in {"resolved", "rejected"}

\* disposables.forEach(d => d.dispose())
DisposeAll(subs, ds) == subs \ Range(ds)

\* promptUser resumes after its await: the finally block, then the return of
\* the response or the rethrow of the rejection.
PU_Finally ==
    /\ ppc = "await"
    /\ promise.state # "pending"
    /\ IF FinallyRuns(promise)
       THEN /\ subscribed' = DisposeAll(subscribed, disposables)
            /\ visible' = FALSE
            /\ hideEcho' = (hideEcho \/ visible)
       ELSE UNCHANGED <<subscribed, visible, hideEcho>>
    /\ ppc' = "returned"
    /\ outcome' = promise
    /\ UNCHANGED busyVars
    /\ UNCHANGED pressed
    /\ UNCHANGED <<wizardVars, otherVars>>
    /\ UNCHANGED <<enabled, busy, items, selectedItems, handler, pstmt,
                   disposables, promise, cpc, val, warnings, settledBy,
                   acceptedSel, lateEvent>>

\* A mutation of verifySinglePickerOutput: the length test is `> 2`.
verifySinglePickerOutput_OffByOne(choices) ==
    IF ~choices.defined \/ Len(choices.items) = 0
    THEN [val |-> Undefined, warn |-> <<>>]
    ELSE IF Len(choices.items) > 2
    THEN [val |-> Undefined, warn |-> <<Len(choices.items)>>]
    ELSE [val |-> choices.items[1], warn |-> <<>>]

\* verifySinglePickerOutput: the value returned and what is logged as a
\* warning (the number of responses the message reports).
verifySinglePickerOutput(choices) ==
    IF ~choices.defined \/ Len(choices.items) = 0
    THEN [val |-> Undefined, warn |-> <<>>]
    ELSE IF Len(choices.items) > 1
    THEN [val |-> Undefined, warn |-> <<Len(choices.items)>>]
    ELSE [val |-> choices.items[1], warn |-> <<>>]

\* The caller resumes with the choices:
\*     const val = picker.verifySinglePickerOutput(choices)
CallerVerify ==
    /\ cpc = "calling"
    /\ outcome.state = "resolved"
    /\ LET r == verifySinglePickerOutput(outcome.value) IN
       /\ val' = r.val
       /\ warnings' = warnings \o r.warn
    /\ cpc' = "verified"
    /\ UNCHANGED busyVars
    /\ UNCHANGED pressed
    /\ UNCHANGED <<wizardVars, otherVars>>
    /\ UNCHANGED <<visible, enabled, busy, items, selectedItems, subscribed,
                   hideEcho, handler, ppc, pstmt, disposables, promise, outcome,
                   settledBy, acceptedSel, lateEvent>>

\* The caller's await throws: the prompt was rejected.
CallerThrows ==
    /\ cpc = "calling"
    /\ outcome.state = "rejected"
    /\ cpc' = "threw"
    /\ UNCHANGED busyVars
    /\ UNCHANGED pressed
    /\ UNCHANGED <<wizardVars, otherVars>>
    /\ UNCHANGED <<visible, enabled, busy, items, selectedItems, subscribed,
                   hideEcho, handler, ppc, pstmt, disposables, promise, outcome,
                   val, warnings, settledBy, acceptedSel, lateEvent>>

(***************************************************************************)
(* promptUserWithBusyMessage                                                *)
(***************************************************************************)

\* The items the populator puts on the picker before it resolves.
PopulatedItems == <<"X", "Y", "Z">>

\* makeQuickPickBusy: the picker's [enabled, busy] afterwards.
makeQuickPickBusy == [enabled |-> FALSE, busy |-> TRUE]

\* A mutation of makeQuickPickNotBusy: the busy indicator is left on.
makeQuickPickNotBusy_StillBusy == [enabled |-> TRUE, busy |-> TRUE]

\* makeQuickPickNotBusy: the picker's [enabled, busy] afterwards.
makeQuickPickNotBusy == [enabled |-> TRUE, busy |-> FALSE]

\* A mutation of the executor: the picker is shown before it is marked busy.
BusyExecutorOrder_ShowFirst == <<"onDidHide", "show", "makeQuickPickBusy">>

\* The statements of promptUserWithBusyMessage's promise executor before its
\* `await populator`, in program order.
BusyExecutorOrder == <<"onDidHide", "makeQuickPickBusy", "show">>

\* promptUserWithBusyMessage({ picker, populator, onDidTriggerButton }) is
\* called with a populator that has not settled yet.
promptUserWithBusyMessage(h) ==
    /\ cpc = "start"
    /\ cpc' = "calling"
    /\ handler' = h
    /\ bpc' = "executor"
    /\ bstmt' = 1
    /\ busyDisposables' = <<>>
    /\ busyPromise' = Pending
    /\ tpc' = "waiting"
    /\ populator' = "pending"
    /\ UNCHANGED <<visible, enabled, busy, items, selectedItems, subscribed,
                   hideEcho, ppc, pstmt, disposables, promise, outcome, val,
                   warnings, settledBy, acceptedSel, lateEvent, hideWhileBusy>>
    /\ UNCHANGED pressed
    /\ UNCHANGED <<wizardVars, otherVars>>

\* One statement of the executor, the last one leaving it at `await populator`.
Busy_Executor ==
    /\ bpc = "executor"
    /\ LET s == BusyExecutorOrder[bstmt] IN
       /\ IF s = "onDidHide"
          THEN /\ subscribed' = subscribed \cup
                                  {Listener("promptUserWithBusyMessage", s)}
               /\ busyDisposables' = Append(busyDisposables,
                                  Listener("promptUserWithBusyMessage", s))
          ELSE UNCHANGED <<subscribed, busyDisposables>>
       /\ IF s = "makeQuickPickBusy"
          THEN enabled' = makeQuickPickBusy.enabled /\ busy' = makeQuickPickBusy.busy
          ELSE UNCHANGED <<enabled, busy>>
       /\ visible' = IF s = "show" THEN TRUE ELSE visible
    /\ IF bstmt = Len(BusyExecutorOrder)
       THEN bpc' = "await" /\ bstmt' = bstmt
       ELSE bpc' = bpc /\ bstmt' = bstmt + 1
    /\ UNCHANGED <<items, selectedItems, hideEcho, handler, ppc, pstmt,
                   disposables, promise, outcome, cpc, val, warnings, settledBy,
                   acceptedSel, lateEvent, busyPromise, tpc, populator,
                   hideWhileBusy>>
    /\ UNCHANGED pressed
    /\ UNCHANGED <<wizardVars, otherVars>>

\* The populator fills the picker and resolves.
PopulatorResolves ==
    /\ JsIdle
    /\ populator = "pending"
    /\ populator' = "resolved"
    /\ items' = PopulatedItems
    /\ UNCHANGED <<visible, enabled, busy, selectedItems, subscribed, hideEcho,
                   handler, ppc, pstmt, disposables, promise, outcome, cpc, val,
                   warnings, settledBy, acceptedSel, lateEvent, bpc, bstmt,
                   busyDisposables, busyPromise, tpc, hideWhileBusy>>
    /\ UNCHANGED pressed
    /\ UNCHANGED <<wizardVars, otherVars>>

\* The populator rejects.
PopulatorRejects ==
    /\ JsIdle
    /\ populator = "pending"
    /\ populator' = "rejected"
    /\ UNCHANGED <<visible, enabled, busy, items, selectedItems, subscribed,
                   hideEcho, handler, ppc, pstmt, disposables, promise, outcome,
                   cpc, val, warnings, settledBy, acceptedSel, lateEvent, bpc,
                   bstmt, busyDisposables, busyPromise, tpc, hideWhileBusy>>
    /\ UNCHANGED pressed
    /\ UNCHANGED <<wizardVars, otherVars>>

\* A mutation of line 248: the executor resolves with false.
PopulatorCompleted_False == FALSE

\* resolve(true): what the executor resolves its promise with once the
\* populator has resolved.
PopulatorCompleted == TRUE

\* The executor resumes after `await populator`:  resolve(true)
Busy_Resume ==
    /\ bpc = "await"
    /\ populator = "resolved"
    /\ bpc' = "populated"
    /\ busyPromise' = resolve(busyPromise, PopulatorCompleted)
    /\ UNCHANGED <<visible, enabled, busy, items, selectedItems, subscribed,
                   hideEcho, handler, ppc, pstmt, disposables, promise, outcome,
                   cpc, val, warnings, settledBy, acceptedSel, lateEvent, bstmt,
                   busyDisposables, tpc, populator, hideWhileBusy>>
    /\ UNCHANGED pressed
    /\ UNCHANGED <<wizardVars, otherVars>>

\* `await populator` throws inside the async executor: the promise the
\* executor returns is rejected, and `new Promise` ignores what its executor
\* returns, so neither resolve nor reject of busyPromise is called.
Busy_ExecutorThrows ==
    /\ bpc = "await"
    /\ populator = "rejected"
    /\ bpc' = "threw"
    /\ UNCHANGED <<visible, enabled, busy, items, selectedItems, subscribed,
                   hideEcho, handler, ppc, pstmt, disposables, promise, outcome,
                   cpc, val, warnings, settledBy, acceptedSel, lateEvent, bstmt,
                   busyDisposables, busyPromise, tpc, populator, hideWhileBusy>>
    /\ UNCHANGED pressed
    /\ UNCHANGED <<wizardVars, otherVars>>

\* A mutation of the .then callback: it prompts whatever didComplete is.
PromptsAfterBusy_Always(didComplete) == TRUE

\* .then((didComplete) => { if (didComplete) { ...promptUser } else { ... } })
PromptsAfterBusy(didComplete) == didComplete

\* The .then callback runs with the value busyPromise was resolved with.
Busy_Then ==
    /\ tpc = "waiting"
    /\ busyPromise.state = "resolved"
    /\ tpc' = "done"
    /\ IF PromptsAfterBusy(busyPromise.value)
       THEN /\ enabled' = makeQuickPickNotBusy.enabled
            /\ busy' = makeQuickPickNotBusy.busy
            /\ EnterPromptUser(handler)
            /\ UNCHANGED <<subscribed, outcome>>
       ELSE /\ subscribed' = DisposeAll(subscribed, busyDisposables)
            /\ outcome' = Resolved(NoChoices)
            /\ UNCHANGED <<enabled, busy, handler, ppc, pstmt, disposables,
                           promise>>
    /\ UNCHANGED <<visible, items, selectedItems, hideEcho, cpc, val, warnings,
                   settledBy, acceptedSel, lateEvent, bpc, bstmt,
                   busyDisposables, busyPromise, populator, hideWhileBusy>>
    /\ UNCHANGED pressed
    /\ UNCHANGED <<wizardVars, otherVars>>


\* createQuickPick({ options, items, buttons }): the picker before any prompt.
PromptInit ==
    /\ visible = FALSE
    /\ enabled = TRUE
    /\ busy = FALSE
    /\ items = InitialItems
    /\ selectedItems = <<>>
    /\ subscribed = {}
    /\ hideEcho = FALSE
    /\ handler = "none"
    /\ ppc = "idle"
    /\ pstmt = 1
    /\ disposables = <<>>
    /\ promise = Pending
    /\ outcome = Pending
    /\ cpc = "start"
    /\ val = Undefined
    /\ warnings = <<>>
    /\ settledBy = "none"
    /\ acceptedSel = <<>>
    /\ lateEvent = "none"
    /\ pressed = "none"
    /\ bpc = "idle"
    /\ bstmt = 1
    /\ busyDisposables = <<>>
    /\ busyPromise = Pending
    /\ tpc = "idle"
    /\ populator = "none"
    /\ hideWhileBusy = FALSE

PromptNext ==
    \/ \E h \in Handlers : promptUser(h)
    \/ PU_Executor
    \/ UserAccept
    \/ UserHide
    \/ HideEcho
    \/ \E q \in Selections(items) : UserSelect(q)
    \/ \E b \in Buttons, e \in CustomEffects : UserButton(b, e)
    \/ PU_Finally
    \/ CallerVerify
    \/ CallerThrows
    \/ \E h \in Handlers : promptUserWithBusyMessage(h)
    \/ Busy_Executor
    \/ PopulatorResolves
    \/ PopulatorRejects
    \/ Busy_Resume
    \/ Busy_ExecutorThrows
    \/ Busy_Then

(***************************************************************************)
(* Part 3 - viewSchemaItem                                                  *)
(***************************************************************************)

Profiles == {"testProfile", Undefined}
RegionCodes == {"testRegion", "us-west-2"}
NodeRegistries == {"testRegistry", "aws.events"}
NodeSchemas == {"testSchema", "aws.ec2@Event"}
SchemaVersions == {"v1", "v2"}

\* The schema contents describeSchema may return: two JSON texts and a text
\* that is not JSON.
RawContents == {"{\"a\":1}", "{}", "oops"}

\* tempDirPath
tempDirPath == "/tmp/aws-toolkit-vscode"

\* The nodes viewSchemaItem may be called on.
SchemaItemNodes ==
    [regionCode : RegionCodes, registryName : NodeRegistries,
     schemaName : NodeSchemas]

\* The responses of describeSchema.
DescribeSchemaResponses == [SchemaVersion : SchemaVersions, Content : RawContents]

\* A mutation of the file name: the schema version is left out.
FileName_NoVersion(p, n, r) ==
    p \o "." \o n.regionCode \o "." \o n.registryName \o "." \o n.schemaName
      \o ".json"

\* `${profile!}.${node.client.regionCode}.${node.registryName}.${
\*      node.schemaName}.${response.SchemaVersion!}.json`
\* (an undefined profile is written as "undefined" by the template literal)
FileName(p, n, r) ==
    p \o "." \o n.regionCode \o "." \o n.registryName \o "." \o n.schemaName
      \o "." \o r.SchemaVersion \o ".json"

\* Whether JSON.parse accepts the text.
IsJson(raw) == raw \in {"{\"a\":1}", "{}"}

\* schemaFormatter: JSON.stringify(JSON.parse(raw), undefined, tabSize), for
\* the tab size 2.
schemaFormatter(raw) ==
    CASE raw = "{\"a\":1}" -> "{\n  \"a\": 1\n}"
      [] raw = "{}"        -> "{}"

\* path.join(tempDirPath, fileName)
PathJoin(dir, file) == dir \o "/" \o file

\* vscode.Uri.file(path)
UriFile(fsPath) == [scheme |-> "file", path |-> fsPath]

\* fs.writeFileSync(path, content) on the files of the directory.
WriteFileSync(dir, fsPath, content) ==
    {f \in dir : f.path # fsPath} \cup {[path |-> fsPath, content |-> content]}

\* viewSchemaItem(node, awsContext) is called and runs up to
\* `await node.client.describeSchema(...)`.
viewSchemaItem(n, p) ==
    /\ vpc = "idle"
    /\ vpc' = "describe"
    /\ node' = n
    /\ profile' = p
    /\ viewResult' = "Succeeded"
    /\ UNCHANGED <<response, fileName, schemaContentTempFile, tempDir, opened,
                   errorMessages, recorded>>
    /\ UNCHANGED thrownBy
    /\ UNCHANGED notViewVars

\* describeSchema resolves with r; the file name is built.
DescribeSchemaResolves(r) ==
    /\ vpc = "describe"
    /\ response' = r
    /\ fileName' = FileName(profile, node, r)
    /\ vpc' = "write"
    /\ UNCHANGED <<node, profile, schemaContentTempFile, tempDir, opened,
                   viewResult, errorMessages, recorded>>
    /\ UNCHANGED thrownBy
    /\ UNCHANGED notViewVars

\* describeSchema rejects: control goes to the catch block.
DescribeSchemaRejects ==
    /\ vpc = "describe"
    /\ vpc' = "catch"
    /\ UNCHANGED <<node, profile, response, fileName, schemaContentTempFile,
                   tempDir, opened, viewResult, errorMessages, recorded>>
    /\ thrownBy' = "describeSchema"
    /\ UNCHANGED notViewVars

\* writeSchemaContentToTempFile(response.Content, fileName): JSON.parse throws
\* on a text that is not JSON, fs.writeFileSync may throw (writable = FALSE);
\* otherwise the pretty-printed content is written and the path returned.
writeSchemaContentToTempFile(writable) ==
    /\ vpc = "write"
    /\ IF IsJson(response.Content) /\ writable
       THEN /\ tempDir' = WriteFileSync(tempDir, PathJoin(tempDirPath, fileName),
                                        schemaFormatter(response.Content))
            /\ schemaContentTempFile' = PathJoin(tempDirPath, fileName)
            /\ vpc' = "show"
       ELSE /\ vpc' = "catch"
            /\ UNCHANGED <<tempDir, schemaContentTempFile>>
    /\ UNCHANGED <<node, profile, response, fileName, opened, viewResult,
                   errorMessages, recorded>>
    /\ thrownBy' = IF IsJson(response.Content) /\ writable THEN thrownBy
                   ELSE "writeSchemaContentToTempFile"
    /\ UNCHANGED notViewVars

\* await vscode.window.showTextDocument(vscode.Uri.file(...), documentOptions):
\* the call is made, and its promise resolves (shown) or rejects.
showTextDocument(shown) ==
    /\ vpc = "show"
    /\ opened' = Append(opened, UriFile(schemaContentTempFile))
    /\ vpc' = IF shown THEN "finally" ELSE "catch"
    /\ UNCHANGED <<node, profile, response, fileName, schemaContentTempFile,
                   tempDir, viewResult, errorMessages, recorded>>
    /\ thrownBy' = IF shown THEN thrownBy ELSE "showTextDocument"
    /\ UNCHANGED notViewVars

\* A mutation of the catch block: viewResult is not set.
ViewCatch_KeepsResult ==
    /\ vpc = "catch"
    /\ errorMessages' = Append(errorMessages, node.schemaName)
    /\ vpc' = "finally"
    /\ UNCHANGED <<node, profile, response, fileName, schemaContentTempFile,
                   tempDir, opened, recorded, viewResult, thrownBy>>
    /\ UNCHANGED notViewVars

\* catch (err) { viewResult = 'Failed'; showErrorMessage(...); logger.error }
ViewCatch ==
    /\ vpc = "catch"
    /\ viewResult' = "Failed"
    /\ errorMessages' = Append(errorMessages, node.schemaName)
    /\ vpc' = "finally"
    /\ UNCHANGED <<node, profile, response, fileName, schemaContentTempFile,
                   tempDir, opened, recorded>>
    /\ UNCHANGED thrownBy
    /\ UNCHANGED notViewVars

\* finally { recordSchemasView({ result: viewResult }) }
ViewFinally ==
    /\ vpc = "finally"
    /\ recorded' = Append(recorded, viewResult)
    /\ vpc' = "done"
    /\ UNCHANGED <<node, profile, response, fileName, schemaContentTempFile,
                   tempDir, opened, viewResult, errorMessages>>
    /\ UNCHANGED thrownBy
    /\ UNCHANGED notViewVars

ViewInit ==
    /\ vpc = "idle"
    /\ node = Undefined
    /\ profile = Undefined
    /\ response = Undefined
    /\ fileName = Undefined
    /\ schemaContentTempFile = Undefined
    /\ tempDir = {}
    /\ opened = <<>>
    /\ viewResult = "Succeeded"
    /\ errorMessages = <<>>
    /\ recorded = <<>>
    /\ thrownBy = "none"

ViewNext ==
    \/ \E n \in SchemaItemNodes, p \in Profiles : viewSchemaItem(n, p)
    \/ \E r \in DescribeSchemaResponses : DescribeSchemaResolves(r)
    \/ DescribeSchemaRejects
    \/ \E writable \in BOOLEAN : writeSchemaContentToTempFile(writable)
    \/ \E shown \in BOOLEAN : showTextDocument(shown)
    \/ ViewCatch
    \/ ViewFinally

(***************************************************************************)
(* Part 4 - toMetricData                                                    *)
(***************************************************************************)

Namespaces == {"namespace", "namesp$ace"}
DatumNames == {"event1", "event:2"}

\* The sequences over S of at most n elements.
RECURSIVE SeqsUpTo(_, _)
SeqsUpTo(S, n) ==
    IF n = 0 THEN {<<>>}
    ELSE LET shorter == SeqsUpTo(S, n - 1)
         IN  shorter \cup {Append(q, x) : q \in {r \in shorter : Len(r) = n - 1},
                                          x \in S}

\* A TelemetryEvent: a namespace and either no `data` or a non-empty array
\* of data entries (by name).
TelemetryEvents ==
    [namespace : Namespaces]
        \cup [namespace : Namespaces,
              data : SeqsUpTo(DatumNames, MaxData) \ {<<>>}]

\* metricEvent.data !== undefined
HasData(e) == "data" \in DOMAIN e

\* A namespace or name without the characters a metric name may not contain.
StripIllegal(str) ==
    CASE str = "namesp$ace"  -> "namespace"
      [] str = "even#t1"     -> "event1"
      [] str = "name_space"  -> "namespace"
      [] str = "metric_name" -> "metricname"
      [] OTHER               -> str

\* A mutation: an event without data yields no metric datum.
DatumsOf_DropsBare(e) ==
    IF ~HasData(e) THEN <<>>
    ELSE [j \in 1..Len(e.data) |->
            [MetricName |-> StripIllegal(e.namespace) \o "_"
                               \o StripIllegal(e.data[j])]]

\* The metric data of one event: one datum named after the namespace when
\* the event has no data, else one datum per data entry, in their order,
\* named <namespace>_<name>.
DatumsOf(e) ==
    IF ~HasData(e)
    THEN <<[MetricName |-> StripIllegal(e.namespace)]>>
    ELSE [j \in 1..Len(e.data) |->
            [MetricName |-> StripIllegal(e.namespace) \o "_"
                               \o StripIllegal(e.data[j])]]

\* toMetricData(array, awsContext): the metric data of the events, in order.
RECURSIVE toMetricData(_)
toMetricData(array) ==
    IF array = <<>> THEN <<>>
    ELSE DatumsOf(Head(array)) \o toMetricData(Tail(array))

\* eventArray.push(...metricEvents)
PushEvents(evs) ==
    /\ mpc = "idle"
    /\ eventArray' = evs
    /\ mpc' = "pushed"
    /\ UNCHANGED data
    /\ UNCHANGED notMetricVars

\* const data = toMetricData(eventArray, fakeAwsContext)
CallToMetricData ==
    /\ mpc = "pushed"
    /\ data' = toMetricData(eventArray)
    /\ mpc' = "done"
    /\ UNCHANGED eventArray
    /\ UNCHANGED notMetricVars

MetricInit ==
    /\ mpc = "idle"
    /\ eventArray = <<>>
    /\ data = <<>>

MetricNext ==
    \/ \E evs \in SeqsUpTo(TelemetryEvents, MaxEvents) : PushEvents(evs)
    \/ CallToMetricData

(***************************************************************************)
(* Part 5 - DefaultCreateNewSamAppWizardContext.promptUserForLocation       *)
(***************************************************************************)
\* The URIs of the folders a workspace may have open, and the folder the user
\* may pick in the Open Folder dialog.
WorkspaceFolderUris == {"file:///ws/a", "file:///ws/b"}
BrowsedUri == "file:///home/new"

\* this.workspaceFolders: no folder, one, or both in either order.
WorkspaceFolderLists ==
    {<<>>} \cup {<<f>> : f \in WorkspaceFolderUris}
           \cup {q \in WorkspaceFolderUris \X WorkspaceFolderUris : q[1] # q[2]}

\* The BrowseFolderQuickPickItem; a WorkspaceFolderQuickPickItem is identified
\* with the URI of its folder.
BrowseFolderQuickPickItem == "Select a different folder..."

\* items: one WorkspaceFolderQuickPickItem per workspace folder, followed by
\* the BrowseFolderQuickPickItem.
LocationItems(folders) == folders \o <<BrowseFolderQuickPickItem>>

\* What picker.promptUser may resolve with on these items: undefined (hidden
\* or Back), no item, one item, or the first and the last item together.
LocationChoices(its) ==
    {NoChoices, Choices(<<>>)}
        \cup {Choices(<<its[i]>>) : i \in 1..Len(its)}
        \cup {Choices(<<its[1], its[Len(its)]>>)}

\* A mutation of line 295: a cancelled dialog's undefined is returned.
RepromptsAfterBrowse_Never(browseFolderResult) == FALSE

\* return browseFolderResult ? browseFolderResult : this.promptUserForLocation()
\* TRUE when the folder picker is prompted again.
RepromptsAfterBrowse(browseFolderResult) == browseFolderResult = Undefined

\* promptUserForLocation() is called: it builds the items and awaits
\* picker.promptUser.
promptUserForLocation(folders) ==
    /\ lpc = "idle"
    /\ workspaceFolders' = folders
    /\ lpc' = "picker"
    /\ locPrompts' = 1
    /\ UNCHANGED <<locChoices, pickerResponse, locationUri>>
    /\ UNCHANGED notLocationVars

\* picker.promptUser resolves with c; verifySinglePickerOutput, then
\*     if (!pickerResponse) return undefined
\*     if (pickerResponse instanceof BrowseFolderQuickPickItem)
\*         ... await pickerResponse.getUri()      the Open Folder dialog opens
\*     return pickerResponse.getUri()             the workspace folder's URI
LocationPickerSettles(c) ==
    /\ lpc = "picker"
    /\ locChoices' = c
    /\ LET r == verifySinglePickerOutput(c).val IN
       /\ pickerResponse' = r
       /\ IF r = Undefined
          THEN lpc' = "returned" /\ locationUri' = Undefined
          ELSE IF r = BrowseFolderQuickPickItem
          THEN lpc' = "dialog" /\ UNCHANGED locationUri
          ELSE lpc' = "returned" /\ locationUri' = r
    /\ UNCHANGED <<workspaceFolders, locPrompts>>
    /\ UNCHANGED notLocationVars

\* The Browse item's getUri() resolves with browseFolderResult: the folder
\* chosen in the Open Folder dialog, or undefined when the dialog was
\* cancelled. The recursive call builds the same items and prompts again.
LocationDialogSettles(browseFolderResult) ==
    /\ lpc = "dialog"
    /\ IF RepromptsAfterBrowse(browseFolderResult)
       THEN /\ locPrompts < MaxLocationPrompts
            /\ lpc' = "picker"
            /\ locPrompts' = locPrompts + 1
            /\ UNCHANGED locationUri
       ELSE /\ lpc' = "returned"
            /\ locationUri' = browseFolderResult
            /\ UNCHANGED locPrompts
    /\ UNCHANGED <<workspaceFolders, locChoices, pickerResponse>>
    /\ UNCHANGED notLocationVars

LocationInit ==
    /\ lpc = "idle"
    /\ workspaceFolders = <<>>
    /\ locPrompts = 0
    /\ locChoices = NoChoices
    /\ pickerResponse = Undefined
    /\ locationUri = Undefined

LocationNext ==
    \/ \E folders \in WorkspaceFolderLists : promptUserForLocation(folders)
    \/ \E c \in LocationChoices(LocationItems(workspaceFolders)) :
           LocationPickerSettles(c)
    \/ \E browseFolderResult \in {Undefined, BrowsedUri} :
           LocationDialogSettles(browseFolderResult)

(***************************************************************************)
(* Part 6 - DefaultCreateNewSamAppWizardContext.promptUserForTemplate       *)
(***************************************************************************)
\* lambdaRuntime.samLambdaRuntimes, samLambdaTemplates and
\* samLambdaTemplatesHelloWorld: the runtimes the runtime prompt offers, the
\* full template set and the hello-world template set.
samLambdaRuntimes == {"python3.7", "python3.6", "nodejs10.x"}
samLambdaTemplates == {"helloWorld", "eventBridge-schema-app"}
samLambdaTemplatesHelloWorld == {"helloWorld"}

\* currRuntime === 'python3.7' || currRuntime === 'python3.6'
IsPythonSchemaRuntime(rt) == rt \in {"python3.7", "python3.6"}

\* promptUserForTemplate(rt) up to its `await picker.promptUser`:
\*     if (currRuntime === 'python3.7' || currRuntime === 'python3.6')
\*         this.lambdaTemplatesHelloWorld = this.lambdaTemplates
\*     items: this.lambdaTemplatesHelloWorld.toArray().map(...)
promptUserForTemplate(rt) ==
    /\ tplpc = "idle"
    /\ templatePrompts < MaxTemplatePrompts
    /\ tplpc' = "awaiting"
    /\ templatePrompts' = templatePrompts + 1
    /\ currRuntime' = rt
    /\ lambdaTemplatesHelloWorld' =
          IF IsPythonSchemaRuntime(rt) THEN samLambdaTemplates
          ELSE lambdaTemplatesHelloWorld
    /\ offeredTemplates' = lambdaTemplatesHelloWorld'
    /\ UNCHANGED templateVal
    /\ UNCHANGED notTemplateVars

\* picker.promptUser resolves with c:
\*     const val = picker.verifySinglePickerOutput(choices)
\*     return val ? val.label : undefined
TemplatePromptSettles(c) ==
    /\ tplpc = "awaiting"
    /\ tplpc' = "idle"
    /\ templateVal' = verifySinglePickerOutput(c).val
    /\ UNCHANGED <<lambdaTemplatesHelloWorld, currRuntime, offeredTemplates,
                   templatePrompts>>
    /\ UNCHANGED notTemplateVars

\* new DefaultCreateNewSamAppWizardContext()
TemplateInit ==
    /\ tplpc = "idle"
    /\ lambdaTemplatesHelloWorld = samLambdaTemplatesHelloWorld
    /\ currRuntime = Undefined
    /\ offeredTemplates = {}
    /\ templatePrompts = 0
    /\ templateVal = Undefined

TemplateNext ==
    \/ \E rt \in samLambdaRuntimes : promptUserForTemplate(rt)
    \/ \E c \in {NoChoices} \cup {Choices(<<t>>) : t \in offeredTemplates} :
           TemplatePromptSettles(c)

(***************************************************************************)
(* Part 7 - DefaultSamCliConfiguration.initialize                           *)
(***************************************************************************)
\* The paths a SAM CLI may be at, and the values the setting may hold: none,
\* the empty string, or a path.
SamCliPaths == {"/usr/local/bin/sam", "/opt/sam"}
SettingValues == {Undefined, ""} \cup SamCliPaths

\* !!configLocation
IsTruthy(str) == str # Undefined /\ str # ""

\* A mutation of line 61: initialize never returns early.
ReturnsEarly_Never(exists) == FALSE

\* if (await filesystemUtilities.fileExists(configLocation)) { return }
ReturnsEarly(exists) == exists

\* filesystemUtilities.fileExists(p), for the files present.
fileExists(p, present) == p \in present

\* new DefaultSamCliConfiguration(configuration, samCliLocationProvider), on a
\* configuration whose setting holds stored, with the files of present.
NewSamCliConfiguration(stored, present) ==
    /\ ipc = "new"
    /\ ipc' = "idle"
    /\ samcliLocation' = stored
    /\ files' = present
    /\ UNCHANGED <<configLocation, detectedLocation, writes>>
    /\ UNCHANGED notConfigVars

\* initialize() is called:
\*     const configLocation = this.getSamCliLocation()
\*     if (!!configLocation) { if (await fileExists(configLocation)) ... }
\*     const detectedLocation = await this._samCliLocationProvider.getLocation()
initialize ==
    /\ ipc = "idle"
    /\ configLocation' = samcliLocation
    /\ ipc' = IF IsTruthy(samcliLocation) THEN "fileExists" ELSE "getLocation"
    /\ UNCHANGED <<samcliLocation, files, detectedLocation, writes>>
    /\ UNCHANGED notConfigVars

\* fileExists(configLocation) resolves: initialize returns, or goes on to
\* await the location provider.
FileExistsResolves ==
    /\ ipc = "fileExists"
    /\ ipc' = IF ReturnsEarly(fileExists(configLocation, files))
              THEN "done" ELSE "getLocation"
    /\ UNCHANGED <<samcliLocation, files, configLocation, detectedLocation,
                   writes>>
    /\ UNCHANGED notConfigVars

\* getLocation() resolves with loc:
\*     await this.setSamCliLocation(detectedLocation)
\* which calls writeSetting('samcli.location', location, Global).
GetLocationResolves(loc) ==
    /\ ipc = "getLocation"
    /\ detectedLocation' = loc
    /\ samcliLocation' = loc
    /\ writes' = Append(writes, loc)
    /\ ipc' = "writeSetting"
    /\ UNCHANGED <<files, configLocation>>
    /\ UNCHANGED notConfigVars

\* writeSetting resolves and initialize returns.
WriteSettingResolves ==
    /\ ipc = "writeSetting"
    /\ ipc' = "done"
    /\ UNCHANGED <<samcliLocation, files, configLocation, detectedLocation,
                   writes>>
    /\ UNCHANGED notConfigVars

ConfigInit ==
    /\ ipc = "new"
    /\ samcliLocation = Undefined
    /\ files = {}
    /\ configLocation = Undefined
    /\ detectedLocation = Undefined
    /\ writes = <<>>

ConfigNext ==
    \/ \E stored \in SettingValues, present \in SUBSET SamCliPaths :
           NewSamCliConfiguration(stored, present)
    \/ initialize
    \/ FileExistsResolves
    \/ \E loc \in {Undefined} \cup SamCliPaths : GetLocationResolves(loc)
    \/ WriteSettingResolves

\* All parts start from their constructed state; a specification runs one part.
Init == WizardInit /\ PromptInit /\ ViewInit /\ MetricInit /\ LocationInit
          /\ TemplateInit /\ ConfigInit

ConfigSpec == Init /\ [][ConfigNext]_allVars

TemplateSpec == Init /\ [][TemplateNext]_allVars

LocationSpec == Init /\ [][LocationNext]_allVars

MetricSpec == Init /\ [][MetricNext]_allVars

ViewSpec == Init /\ [][ViewNext]_allVars

PromptSpec == Init /\ [][PromptNext]_allVars

WizardSpec == Init /\ [][WizardNext]_allVars

\* The run makes progress: the loop invokes the step it points to, and every
\* prompt a step awaits is eventually answered.
\* The .then callback of promptUserWithBusyMessage runs once the promise it
\* is attached to is resolved; nothing is assumed about the populator or the
\* user.
PromptFairSpec ==
    /\ Init
    /\ [][PromptNext]_allVars
    /\ WF_allVars(Busy_Then)

WizardFairSpec ==
    /\ Init
    /\ [][WizardNext]_allVars
    /\ WF_allVars(InvokeStep)
    /\ WF_allVars(\E v \in Maybe(Runtimes) : RUNTIME(v))
    /\ WF_allVars(\E v \in Maybe(Templates) : TEMPLATE(v))
    /\ WF_allVars(\E v \in Maybe(Regions) : REGION(v))
    /\ WF_allVars(\E v \in Maybe(Registries) : REGISTRY(v))
    /\ WF_allVars(\E v \in Maybe(Schemas) : SCHEMA(v))
    /\ WF_allVars(\E v \in Maybe(Locations) : LOCATION(v))
    /\ WF_allVars(\E v \in Maybe(Names) : NAME(v))

\* The mandatory fields of the response (getResult's guard).
MandatorySet ==
    /\ runtime # Undefined
    /\ template # Undefined
    /\ location # Undefined
    /\ name # Undefined

\* The response in progress, as a result object.
Accumulated ==
    [kind |-> "response", runtime |-> runtime, template |-> template,
     region |-> region, registryName |-> registryName, schemaName |-> schemaName,
     location |-> location, name |-> name]

\* The steps `step` pointed to before the one it points to now.
Earlier == IF path = <<>> THEN {} ELSE Range(SubSeq(path, 1, Len(path) - 1))

\* The run has followed a path without a cycle: no step was pointed to twice.
CycleFree == \A i, j \in DOMAIN path : i # j => path[i] # path[j]

\* The step about to run, or running, has run before: the wizard came back to it.
Reentered == step \in Earlier

(***************************************************************************)
(* Claims about run() and getResult                                         *)
(***************************************************************************)

\* C1: when the last step (NAME) returns the value that ends the loop while
\* runtime, template, location and name are all set, run() returns a result
\* object whose seven fields equal the fields of the response in progress.
C1_ResultEqualsAccumulated ==
    (wpc = "done" /\ MandatorySet) => result = Accumulated

\* C1 witness: a run ended by NAME on the eventBridge path, every field set.
C1_Witness ==
    /\ wpc = "done"
    /\ lastStep = "NAME"
    /\ MandatorySet
    /\ region # Undefined /\ registryName # Undefined /\ schemaName # Undefined
    /\ registryName # schemaName
    /\ result = Accumulated

\* C2: when the loop ends while runtime, template, location or name is
\* absent, run() returns undefined, never a partly filled result object.
C2_MissingFieldGivesUndefined ==
    (wpc = "done" /\ ~MandatorySet) => result = NoResult

\* C2 witness: the run ended with region, registry and schema entered but
\* the runtime absent (RUNTIME was cancelled after navigating back to it).
C2_Witness ==
    /\ wpc = "done"
    /\ runtime = Undefined
    /\ region # Undefined
    /\ registryName # Undefined
    /\ schemaName # Undefined
    /\ result = NoResult

PromptListeners(h) ==
    {Listener("promptUser", "onDidAccept"), Listener("promptUser", "onDidHide")}
        \cup (IF h = "none" THEN {}
              ELSE {Listener("promptUser", "onDidTriggerButton")})

\* C4: a promptUser call settles exactly once: the first accept, hide or
\* button-handler callback that calls resolve or reject fixes the outcome, no
\* later event changes it, and it is this outcome the caller receives.
C4_SettlesExactlyOnce ==
    [][ /\ promise.state # "pending" =>
              /\ promise' = promise
              /\ settledBy' = settledBy
        /\ outcome.state # "pending" => outcome' = outcome
        /\ (ppc = "await" /\ ppc' = "returned") => outcome' = promise
      ]_allVars

\* C4 witness: accept settled the prompt, a hide event then reached the hide
\* listener, and the caller still received the accepted items.
C4_Witness ==
    /\ settledBy = "accept"
    /\ lateEvent = "hide"
    /\ ppc = "returned"
    /\ Len(acceptedSel) = 1
    /\ outcome = Resolved(Choices(acceptedSel))

\* C5: when accept fires first the prompt resolves to the sequence of items
\* selected at that accept, when hide fires first to undefined; the sequence
\* is a snapshot, whatever picker.selectedItems becomes afterwards.
C5_AcceptSnapshotHideUndefined ==
    /\ settledBy = "accept" => promise = Resolved(Choices(acceptedSel))
    /\ settledBy = "hide" => promise = Resolved(NoChoices)
    /\ (ppc = "returned" /\ settledBy = "accept") =>
            outcome = Resolved(Choices(acceptedSel))
    /\ (ppc = "returned" /\ settledBy = "hide") => outcome = Resolved(NoChoices)

\* C5 witness: accept fired with two items selected, the selection changed
\* afterwards, and the caller received the two items.
C5_Witness ==
    /\ settledBy = "accept"
    /\ Len(acceptedSel) = 2
    /\ selectedItems # acceptedSel
    /\ ppc = "returned"
    /\ outcome = Resolved(Choices(acceptedSel))

\* C6: once promptUser has handed its outcome to the caller, by whichever
\* path it settled, none of the listeners it registered is still subscribed
\* and the picker is hidden.
C6_CleanupOnEveryPath ==
    ppc = "returned" =>
        /\ outcome.state # "pending"
        /\ \A d \in Range(disposables) : d \notin subscribed
        /\ \A l \in subscribed : l.owner # "promptUser"
        /\ ~visible

\* C6 witness: the caller's button handler rejected; promptUser had registered
\* three listeners and returned with all of them disposed.
C6_Witness ==
    /\ ppc = "returned"
    /\ outcome = Rejected
    /\ settledBy = "button"
    /\ Len(disposables) = 3
    /\ subscribed = {}
    /\ ~visible

\* C7: promptUser calls picker.show() only when its accept and hide listeners
\* and, if a handler was supplied, its button listener are registered; so
\* while it waits every event finds them subscribed.
C7_ShowAfterSubscriptions ==
    [][ /\ (ppc = "executor" /\ ExecutorOrder[pstmt] = "show") =>
              PromptListeners(handler) \subseteq subscribed
        /\ (ppc' = "await" /\ promise' = Pending) =>
              PromptListeners(handler') \subseteq subscribed'
      ]_allVars

\* C7 witness: the picker is shown by promptUser, which waits with its three
\* listeners registered.
C7_Witness ==
    /\ ppc = "await"
    /\ bpc = "idle"
    /\ visible
    /\ promise = Pending
    /\ handler = "wizard"
    /\ Cardinality(subscribed) = 3
    /\ PromptListeners(handler) \subseteq subscribed

\* C8: a button press does not settle the prompt by itself: promptUser does
\* not resume, and the promise is unchanged when no handler was supplied, when
\* the handler calls neither resolve nor reject, and for the wizard's handler
\* on Help; the wizard's handler resolves a pending prompt with undefined on
\* Back.
C8_ButtonAloneDoesNotSettle ==
    [][ \A b \in Buttons, e \in CustomEffects :
          UserButton(b, e) =>
              /\ ppc' = ppc
              /\ outcome' = outcome
              /\ handler = "none" => promise' = promise
              /\ (handler = "custom" /\ e = "nothing") => promise' = promise
              /\ (handler = "wizard" /\ b = "Help") => promise' = promise
              /\ (handler = "wizard" /\ b = "Back" /\ ppc = "await"
                    /\ promise = Pending) => promise' = Resolved(NoChoices)
      ]_allVars

\* C8 witness: Help was pressed in a wizard prompt, which is still pending.
C8_Witness ==
    /\ handler = "wizard"
    /\ pressed = "Help"
    /\ ppc = "await"
    /\ visible
    /\ promise = Pending

\* C9: verifySinglePickerOutput gives undefined for undefined and for the
\* empty sequence, the item for a sequence of one item, and for two or more
\* items logs one warning and gives undefined.
C9_VerifySinglePickerOutput ==
    cpc = "verified" =>
        LET choices == outcome.value IN
        IF ~choices.defined \/ Len(choices.items) = 0
        THEN val = Undefined /\ warnings = <<>>
        ELSE IF Len(choices.items) = 1
        THEN val = choices.items[1] /\ warnings = <<>>
        ELSE val = Undefined /\ warnings = <<Len(choices.items)>>

\* C9 witness: the caller verified a prompt that resolved with two items.
C9_Witness ==
    /\ cpc = "verified"
    /\ outcome = Resolved(Choices(<<"B", "A">>))
    /\ val = Undefined
    /\ warnings = <<2>>

\* C10: if a hide event fires while the populator is still pending,
\* promptUserWithBusyMessage resolves to undefined, promptUser is never
\* entered, and the populator's later resolution changes nothing.
C10_HideDuringBusyCancels ==
    hideWhileBusy =>
        /\ busyPromise = Resolved(FALSE)
        /\ ppc = "idle"
        /\ promise = Pending
        /\ tpc = "waiting" => outcome = Pending
        /\ tpc = "done" => outcome = Resolved(NoChoices)

\* C10 witness: hide fired during population, the populator resolved later
\* and the executor resumed, and the operation had resolved to undefined.
C10_Witness ==
    /\ hideWhileBusy
    /\ populator = "resolved"
    /\ bpc = "populated"
    /\ tpc = "done"
    /\ ppc = "idle"
    /\ outcome = Resolved(NoChoices)

\* C11: when the populator resolves after putting X, Y, Z on the picker and
\* no hide event reached promptUserWithBusyMessage before its executor
\* resumed, the executor resolves with true, promptUser is entered on the
\* picker holding exactly X, Y, Z, only those items can be accepted, and what
\* the caller receives is the outcome of that promptUser call.
C11_PopulatedThenPrompt ==
    [][ /\ (bpc = "await" /\ bpc' = "populated" /\ busyPromise = Pending) =>
              /\ busyPromise' = Resolved(TRUE)
              /\ items = PopulatedItems
        /\ (tpc = "waiting" /\ tpc' = "done" /\ busyPromise = Resolved(TRUE)) =>
              /\ ppc' = "executor"
              /\ promise' = Pending
              /\ items' = PopulatedItems
              /\ outcome' = Pending
        /\ (tpc' = "done" /\ busyPromise' = Resolved(TRUE)) =>
              /\ items' = PopulatedItems
              /\ selectedItems' \in Selections(PopulatedItems)
              /\ ppc' # "returned" => outcome' = Pending
              /\ ppc' = "returned" => outcome' = promise'
              /\ settledBy' = "accept" =>
                    Range(acceptedSel') \subseteq Range(PopulatedItems)
      ]_allVars

\* C11 witness: population completed without a hide, the user then accepted
\* Y in the prompt that followed, and the caller received <<Y>>.
C11_Witness ==
    /\ populator = "resolved"
    /\ ~hideWhileBusy
    /\ busyPromise = Resolved(TRUE)
    /\ tpc = "done"
    /\ ppc = "returned"
    /\ items = PopulatedItems
    /\ settledBy = "accept"
    /\ acceptedSel = <<"Y">>
    /\ outcome = Resolved(Choices(<<"Y">>))

\* C12: promptUserWithBusyMessage marks the picker busy and disabled before
\* it shows it and before it awaits the populator; the picker stays busy and
\* disabled while the populator is pending and until the .then callback
\* runs; the picker is not busy and enabled when promptUser is entered and
\* during the prompt that follows.
C12_BusyWhilePopulating ==
    [][ /\ (bpc = "executor" /\ BusyExecutorOrder[bstmt] = "show") =>
              (busy /\ ~enabled)
        /\ (bpc = "executor" /\ bpc' = "await") => (busy' /\ ~enabled')
        /\ (bpc' = "await" /\ populator' = "pending") => (busy' /\ ~enabled')
        /\ (bpc' \in {"await", "populated", "threw"} /\ tpc' = "waiting") =>
              (busy' /\ ~enabled')
        /\ (tpc = "waiting" /\ ppc = "idle" /\ ppc' = "executor") =>
              (enabled' /\ ~busy')
        /\ (tpc' = "done" /\ ppc' # "idle") => (enabled' /\ ~busy')
      ]_allVars

\* C12 witness: the populator resolved while the picker was shown busy, the
\* picker was then marked not busy, and promptUser now waits on it, enabled.
C12_Witness ==
    /\ bpc = "populated"
    /\ populator = "resolved"
    /\ busyPromise = Resolved(TRUE)
    /\ tpc = "done"
    /\ ppc = "await"
    /\ promise = Pending
    /\ visible
    /\ enabled
    /\ ~busy

\* C13: when the populator rejects (and no hide event had cancelled the
\* operation before), the promise promptUserWithBusyMessage is waiting on is
\* rejected, and what the caller receives is that rejection.
C13_PopulatorRejectionPropagates ==
    (bpc = "threw" /\ ~hideWhileBusy) =>
        /\ busyPromise = Rejected
        /\ tpc = "done" => outcome = Rejected

(***************************************************************************)
(* Claims about the steps of CreateNewSamAppWizard                          *)
(***************************************************************************)

\* C14: when the wizard has come back to a step (the prompt of a later step
\* was cancelled) and the step is re-run with a choice v, the step's field
\* holds exactly v afterwards, whatever it held before, and no other field
\* changes; so after cancelling at TEMPLATE the second runtime choice
\* replaces the first.
C14_RerunOverwrites ==
    [][ Reentered =>
          /\ \A v \in Runtimes : RUNTIME(v) =>
                (runtime' = v /\ before' = runtime /\ step' = "TEMPLATE"
                   /\ UNCHANGED <<template, region, registryName, schemaName,
                                  location, name>>)
          /\ \A v \in Templates : TEMPLATE(v) =>
                (template' = v
                   /\ UNCHANGED <<runtime, region, registryName, schemaName,
                                  location, name>>)
          /\ \A v \in Regions : REGION(v) =>
                (region' = v
                   /\ UNCHANGED <<runtime, template, registryName, schemaName,
                                  location, name>>)
          /\ \A v \in Registries : REGISTRY(v) =>
                (registryName' = v
                   /\ UNCHANGED <<runtime, template, region, schemaName,
                                  location, name>>)
          /\ \A v \in Schemas : SCHEMA(v) =>
                (schemaName' = v
                   /\ UNCHANGED <<runtime, template, region, registryName,
                                  location, name>>)
          /\ \A v \in Locations : LOCATION(v) =>
                (location' = v
                   /\ UNCHANGED <<runtime, template, region, registryName,
                                  schemaName, name>>)
      ]_allVars

\* C14 witness: python3.7 was chosen, TEMPLATE was cancelled and went back to
\* RUNTIME, nodejs10.x was chosen there, and runtime is nodejs10.x.
C14_Witness ==
    /\ path = <<"RUNTIME", "TEMPLATE", "RUNTIME", "TEMPLATE">>
    /\ lastStep = "RUNTIME"
    /\ wpc = "ready"
    /\ before = "python3.7"
    /\ runtime = "nodejs10.x"
    /\ template = Undefined

\* C15: a run that follows a cycle-free path from the start step terminates
\* (as long as it is on such a path it goes on until run() returns, or is
\* rejected by a step that threw), and the number of step functions invoked
\* is the number of steps on the path: one invocation for each step pointed
\* to, none twice.
C15_CycleFreeRunTerminates ==
    /\ []((wpc = "done" /\ CycleFree) =>
            /\ path[1] = startStep
            /\ invocations = Len(path)
            /\ invocations = Cardinality(Range(path)))
    /\ []((wpc = "awaiting" /\ CycleFree) => invocations = Len(path))
    /\ []((wpc = "ready" /\ CycleFree) => invocations = Len(path) - 1)
    /\ []((wpc = "threw" /\ CycleFree) => invocations = Len(path))
    /\ (wpc # "created") ~> (wpc \in {"done", "threw"} \/ ~CycleFree)

\* C15 witness: run() returned after the seven steps of the eventBridge path,
\* each invoked once.
C15_Witness ==
    /\ wpc = "done"
    /\ CycleFree
    /\ path = <<"RUNTIME", "TEMPLATE", "REGION", "REGISTRY", "SCHEMA",
                "LOCATION", "NAME">>
    /\ invocations = 7
    /\ result = Accumulated

\* C16: during a run at most one step function is executing, and it is the
\* one `step` points to; `step` is a step of the wizard while the run is
\* active and the terminate value (undefined) exactly when run() has ended;
\* a step function is invoked only when no step function is executing, that
\* is after the previous step's promise settled.
C16_StepsRunOneAtATime ==
    /\ [](Cardinality(running) <= 1)
    /\ [](wpc = "awaiting" <=> running = {step})
    /\ [](wpc # "awaiting" => running = {})
    /\ [](step \in StepIds \cup {Undefined})
    /\ [](wpc \in {"ready", "awaiting"} => step \in StepIds)
    /\ [](wpc = "done" => step = Undefined)
    /\ [][ /\ invocations' # invocations =>
                /\ running = {}
                /\ wpc = "ready"
                /\ running' = {step}
                /\ invocations' = invocations + 1
          /\ step' # step => (wpc = "created" \/ running = {step})
        ]_allVars

\* C16 witness: the fifth invocation of the run, SCHEMA, is the one step
\* function executing; the four before it have returned.
C16_Witness ==
    /\ wpc = "awaiting"
    /\ step = "SCHEMA"
    /\ running = {"SCHEMA"}
    /\ invocations = 5
    /\ path = <<"RUNTIME", "TEMPLATE", "REGION", "REGISTRY", "SCHEMA">>

\* C17: whenever promptUser starts on the picker, no listener of an earlier
\* session is still subscribed to the picker's events and the earlier
\* session has settled; this includes the start of promptUser from the .then
\* callback of promptUserWithBusyMessage.
C17_OneSessionPerWidget ==
    (ppc = "executor" /\ pstmt = 1) =>
        /\ subscribed = {}
        /\ bpc # "idle" => busyPromise.state # "pending"

\* C18: when the prompt of a step other than the start step yields undefined,
\* the step returns a step the run has visited before, so the run goes on
\* from there instead of ending, and the fields of the other steps keep
\* their values.
C18_CancelGoesBackKeepingFields ==
    [][ /\ TEMPLATE(Undefined) =>
              /\ step' \in Earlier /\ wpc' = "ready"
              /\ UNCHANGED <<runtime, region, registryName, schemaName,
                             location, name>>
        /\ REGION(Undefined) =>
              /\ step' \in Earlier /\ wpc' = "ready"
              /\ UNCHANGED <<runtime, template, registryName, schemaName,
                             location, name>>
        /\ REGISTRY(Undefined) =>
              /\ step' \in Earlier /\ wpc' = "ready"
              /\ UNCHANGED <<runtime, template, region, schemaName,
                             location, name>>
        /\ SCHEMA(Undefined) =>
              /\ step' \in Earlier /\ wpc' = "ready"
              /\ UNCHANGED <<runtime, template, region, registryName,
                             location, name>>
        /\ LOCATION(Undefined) =>
              /\ step' \in Earlier /\ wpc' = "ready"
              /\ UNCHANGED <<runtime, template, region, registryName,
                             schemaName, name>>
        /\ NAME(Undefined) =>
              /\ step' \in Earlier /\ wpc' = "ready"
              /\ UNCHANGED <<runtime, template, region, registryName,
                             schemaName, location>>
      ]_allVars

\* C18 witness: the LOCATION prompt yielded undefined on the eventBridge
\* path; the wizard points to TEMPLATE again and the five fields entered
\* before are still set.
C18_Witness ==
    /\ path = <<"RUNTIME", "TEMPLATE", "REGION", "REGISTRY", "SCHEMA",
                "LOCATION", "TEMPLATE">>
    /\ lastStep = "LOCATION"
    /\ wpc = "ready"
    /\ step = "TEMPLATE"
    /\ location = Undefined
    /\ runtime # Undefined
    /\ template = "eventBridge-schema-app"
    /\ region # Undefined
    /\ registryName # Undefined
    /\ schemaName # Undefined

\* C19 as stated: once a field of the response in progress is set it is
\* never absent again in that run.
C19_FieldsOnlyWidened ==
    [][ /\ runtime # Undefined => runtime' # Undefined
        /\ template # Undefined => template' # Undefined
        /\ region # Undefined => region' # Undefined
        /\ registryName # Undefined => registryName' # Undefined
        /\ schemaName # Undefined => schemaName' # Undefined
        /\ location # Undefined => location' # Undefined
        /\ name # Undefined => name' # Undefined
      ]_allVars

\* C19 as amended: a field changes only when its own step returns, and then
\* it holds what the step's prompt yielded, which is undefined when the prompt
\* was cancelled: a set field becomes absent exactly by a cancelled prompt of
\* its own step, and no other step clears it.
C19_FieldClearedOnlyByOwnStep ==
    [][ /\ runtime' # runtime => lastStep = "RUNTIME" /\ Awaiting("RUNTIME")
        /\ template' # template => lastStep = "TEMPLATE" /\ Awaiting("TEMPLATE")
        /\ region' # region => lastStep = "REGION" /\ Awaiting("REGION")
        /\ registryName' # registryName =>
              lastStep = "REGISTRY" /\ Awaiting("REGISTRY")
        /\ schemaName' # schemaName => lastStep = "SCHEMA" /\ Awaiting("SCHEMA")
        /\ location' # location => lastStep = "LOCATION" /\ Awaiting("LOCATION")
        /\ name' # name => lastStep = "NAME" /\ Awaiting("NAME")
        /\ RUNTIME(Undefined) => runtime' = Undefined
        /\ TEMPLATE(Undefined) => template' = Undefined
        /\ REGION(Undefined) => region' = Undefined
        /\ REGISTRY(Undefined) => registryName' = Undefined
        /\ SCHEMA(Undefined) => schemaName' = Undefined
        /\ LOCATION(Undefined) => location' = Undefined
        /\ NAME(Undefined) => name' = Undefined
      ]_allVars

\* C19 witness: helloWorld had been chosen; a later run of TEMPLATE had its
\* prompt cancelled, and template is absent again.
C19_Witness ==
    /\ lastStep = "TEMPLATE"
    /\ before = "helloWorld"
    /\ template = Undefined
    /\ runtime # Undefined
    /\ step = "RUNTIME"
    /\ wpc = "ready"

\* What each step would return on receiving val from its prompt.
StepReturns(v) ==
    {RUNTIME_next(v), TEMPLATE_next(v), REGION_next(v), REGISTRY_next(v),
     SCHEMA_next(v), NAME_next(v)}
        \cup {LOCATION_next(v, tp) : tp \in Maybe(Templates)}

\* C20: cancelling is not an exception. A hide event, and a press of Back
\* with the wizard's handler, resolve a pending promptUser with undefined;
\* unless the caller passed a handler of its own that rejects, promptUser is
\* never rejected and its caller never throws; the caller of a cancelled
\* prompt gets undefined, on which every step returns a step or undefined.
C20_CancellationIsNotAnException ==
    [][ /\ ((UserHide \/ HideEcho) /\ promise = Pending
              /\ Listener("promptUser", "onDidHide") \in subscribed) =>
                promise' = Resolved(NoChoices)
        /\ \A e \in CustomEffects :
              (UserButton("Back", e) /\ handler = "wizard" /\ promise = Pending
                 /\ Listener("promptUser", "onDidTriggerButton") \in subscribed) =>
                   promise' = Resolved(NoChoices)
        /\ handler' # "custom" =>
              /\ promise'.state # "rejected"
              /\ outcome'.state # "rejected"
              /\ cpc' # "threw"
        /\ settledBy' = "hide" => promise' = Resolved(NoChoices)
        /\ (ppc' = "returned" /\ settledBy' = "hide") =>
              outcome' = Resolved(NoChoices)
        /\ (cpc' = "verified" /\ outcome' = Resolved(NoChoices)) =>
              /\ val' = Undefined
              /\ StepReturns(val') \subseteq StepIds \cup {Undefined}
      ]_allVars

\* C20 witness: Back was pressed in a wizard prompt; promptUser resolved with
\* undefined and its caller went on with undefined.
C20_Witness ==
    /\ handler = "wizard"
    /\ pressed = "Back"
    /\ settledBy = "button"
    /\ ppc = "returned"
    /\ outcome = Resolved(NoChoices)
    /\ cpc = "verified"
    /\ val = Undefined

\* The fields of the response in progress.
fields == <<runtime, template, region, registryName, schemaName, location, name>>

\* C21: when the external call of a step (REGISTRY, SCHEMA) throws, neither
\* the step nor run() catches it: run() is rejected, the step pointer does
\* not move (no back-navigation), no field is assigned, and from then on no
\* step function is invoked and nothing of the wizard changes.
C21_StepExceptionPropagates ==
    [][ /\ \A s \in ExternalCallSteps :
              StepThrows(s) =>
                  /\ wpc' = "threw"
                  /\ step' = s
                  /\ UNCHANGED <<fields, path, invocations, result>>
        /\ wpc = "threw" => UNCHANGED wizardVars
        /\ wpc' = "threw" => (running' = {} /\ result' = NoResult)
      ]_allVars

\* C21 witness: listing the schemas threw in SCHEMA, the fifth step invoked;
\* run() is rejected with the pointer still on SCHEMA and no schema set.
C21_Witness ==
    /\ wpc = "threw"
    /\ step = "SCHEMA"
    /\ lastStep = "SCHEMA"
    /\ invocations = 5
    /\ path = <<"RUNTIME", "TEMPLATE", "REGION", "REGISTRY", "SCHEMA">>
    /\ registryName # Undefined
    /\ schemaName = Undefined

\* C22: an accept with nothing selected settles promptUser as any accept
\* does: a pending prompt resolves with the sequence of the selected items,
\* here the empty sequence, which is neither undefined nor a rejection; it
\* is verifySinglePickerOutput that gives the caller undefined for it,
\* without a warning.
C22_EmptyAcceptResolvesEmpty ==
    [][ /\ (UserAccept /\ promise = Pending
              /\ Listener("promptUser", "onDidAccept") \in subscribed) =>
                /\ promise' = Resolved(Choices(selectedItems))
                /\ promise' # Resolved(NoChoices)
                /\ promise'.state # "rejected"
        /\ (settledBy' = "accept" /\ acceptedSel' = <<>>) =>
                /\ promise' = Resolved(Choices(<<>>))
                /\ ppc' = "returned" => outcome' = Resolved(Choices(<<>>))
        /\ (cpc' = "verified" /\ outcome' = Resolved(Choices(<<>>))) =>
                (val' = Undefined /\ warnings' = <<>>)
      ]_allVars

\* C22 witness: the user accepted with nothing selected; promptUser resolved
\* with the empty sequence and its caller has verified it to undefined.
C22_Witness ==
    /\ settledBy = "accept"
    /\ acceptedSel = <<>>
    /\ ppc = "returned"
    /\ outcome = Resolved(Choices(<<>>))
    /\ cpc = "verified"
    /\ val = Undefined
    /\ warnings = <<>>

(***************************************************************************)
(* Claims about viewSchemaItem                                              *)
(***************************************************************************)

\* C23: when describeSchema and the write of the temp file succeeded,
\* viewSchemaItem calls showTextDocument exactly once, with the URI of the
\* file <tempDirPath>/<profile>.<region>.<registry>.<schema>.<version>.json,
\* which then exists; before that, and when either failed, it does not call
\* showTextDocument at all.
C23_OpensTempFileOnce ==
    LET expected ==
            tempDirPath \o "/" \o profile \o "." \o node.regionCode \o "."
               \o node.registryName \o "." \o node.schemaName \o "."
               \o response.SchemaVersion \o ".json"
    IN  /\ Len(opened) <= 1
        /\ (vpc \in {"idle", "describe", "write", "show"}) => opened = <<>>
        /\ schemaContentTempFile = Undefined => opened = <<>>
        /\ (schemaContentTempFile # Undefined /\ vpc # "show") =>
              /\ opened = <<UriFile(expected)>>
              /\ \E f \in tempDir : f.path = expected

\* C23 witness: the call of the test: profile testProfile, region testRegion,
\* registry testRegistry, schema testSchema, version v1; the editor was
\* opened once on that file and the call has ended.
C23_Witness ==
    /\ vpc = "done"
    /\ viewResult = "Succeeded"
    /\ opened = <<UriFile(
          "/tmp/aws-toolkit-vscode/testProfile.testRegion.testRegistry.testSchema.v1.json")>>
    /\ recorded = <<"Succeeded">>

(***************************************************************************)
(* Claims about toMetricData                                                *)
(***************************************************************************)

\* The number of data entries of an event, and 1 for an event without data.
Width(e) == IF "data" \in DOMAIN e THEN Len(e.data) ELSE 1

\* The sum of Width over the first k events of the array.
RECURSIVE WidthBefore(_, _)
WidthBefore(array, k) ==
    IF k = 0 THEN 0 ELSE WidthBefore(array, k - 1) + Width(array[k])

C25_BackGoesOneStepBack ==
    [][ CycleFree =>
          /\ TEMPLATE(Undefined) => step' = path[Len(path) - 1]
          /\ REGION(Undefined) => step' = path[Len(path) - 1]
          /\ REGISTRY(Undefined) => step' = path[Len(path) - 1]
          /\ SCHEMA(Undefined) => step' = path[Len(path) - 1]
          /\ LOCATION(Undefined) => step' = path[Len(path) - 1]
          /\ NAME(Undefined) => step' = path[Len(path) - 1]
      ]_allVars

\* The field a step assigns.
FieldOf(s) ==
    CASE s = "RUNTIME"  -> runtime
      [] s = "TEMPLATE" -> template
      [] s = "REGION"   -> region
      [] s = "REGISTRY" -> registryName
      [] s = "SCHEMA"   -> schemaName
      [] s = "LOCATION" -> location
      [] s = "NAME"     -> name

\* C26: when a step with a current-value parameter is entered again, the
\* value its field holds from the earlier visit is what it passes to its
\* prompt as the current value.
C26_CurrentValueCarriedOver ==
    (wpc = "awaiting" /\ Reentered
        /\ step \in {"RUNTIME", "TEMPLATE", "REGION", "REGISTRY", "SCHEMA"}) =>
            currValue = FieldOf(step)

\* C27: when promptUserWithBusyMessage has settled, after the populator
\* completed or after a cancellation while busy, the hide listener it
\* subscribed during the busy phase has been disposed.
C27_BusyListenerDisposed ==
    (bpc # "idle" /\ outcome.state # "pending") =>
        Listener("promptUserWithBusyMessage", "onDidHide") \notin subscribed

\* C28: a cancelled Open Folder dialog never makes promptUserForLocation
\* return undefined: after it the folder picker is prompted again, so the
\* call returns undefined only when the folder picker itself yielded no item,
\* and otherwise returns once a folder is obtained.
C28_CancelledDialogPromptsAgain ==
    [][ /\ LocationDialogSettles(Undefined) =>
              lpc' = "picker" /\ locPrompts' = locPrompts + 1
        /\ (lpc # "returned" /\ lpc' = "returned") =>
              IF locationUri' = Undefined
              THEN lpc = "picker" /\ pickerResponse' = Undefined
              ELSE locationUri' \in WorkspaceFolderUris \cup {BrowsedUri}
      ]_allVars

\* C28 witness: the Open Folder dialog was cancelled twice, the picker was
\* shown a third time, and the call returned the folder browsed to then.
C28_Witness ==
    /\ lpc = "returned"
    /\ locPrompts = 3
    /\ pickerResponse = BrowseFolderQuickPickItem
    /\ locationUri = BrowsedUri

\* The steps of CreateNewSamAppWizard in the order the class declares them,
\* and the position of a step in that order.
StepOrder == <<"RUNTIME", "TEMPLATE", "REGION", "REGISTRY", "SCHEMA", "LOCATION",
               "NAME">>
Rank(s) == CHOOSE i \in DOMAIN StepOrder : StepOrder[i] = s

\* C29: a step whose prompt yielded a value moves the run strictly forward in
\* the order RUNTIME < TEMPLATE < REGION < REGISTRY < SCHEMA < LOCATION < NAME
\* (TEMPLATE to REGION exactly for 'eventBridge-schema-app', otherwise to
\* LOCATION; NAME ends the run); every move that is not forward is a
\* cancellation, so every cycle contains one; a run that returns without a
\* cancellation has invoked exactly 4 steps, 7 on the eventBridge path; and
\* never more than 7 steps are invoked in a row without a cancellation, the
\* run ending once the prompts no longer yield undefined.
C29_SuccessMovesForward ==
    /\ [][ (wpc = "awaiting" /\ wpc' \in {"ready", "done"}
                /\ cancellations' = cancellations) =>
              /\ step = "NAME" => step' = Undefined
              /\ step # "NAME" =>
                    /\ step' \in Range(StepOrder)
                    /\ Rank(step') > Rank(step)
              /\ step = "TEMPLATE" =>
                    step' = IF template' = "eventBridge-schema-app"
                            THEN "REGION" ELSE "LOCATION"
          ]_allVars
    /\ [][ (step \in Range(StepOrder) /\ step' \in Range(StepOrder)
                /\ Rank(step') <= Rank(step) /\ path' # path) =>
              cancellations' = cancellations + 1
          ]_allVars
    /\ []((wpc = "done" /\ cancellations = 0) =>
             IF template = "eventBridge-schema-app"
             THEN invocations = 7 /\ path = StepOrder
             ELSE invocations = 4
                    /\ path = <<"RUNTIME", "TEMPLATE", "LOCATION", "NAME">>)
    /\ [](sinceCancel <= 7)
    /\ \A k \in 0..MaxInvocations :
          (wpc \in {"ready", "awaiting"} /\ cancellations = k
              /\ (invocations - sinceCancel) + 7 <= MaxInvocations)
            ~> (wpc \in {"done", "threw"} \/ cancellations > k)

\* C29 witness: a run without any cancellation returned after the seven steps
\* of the eventBridge path.
C29_Witness ==
    /\ wpc = "done"
    /\ cancellations = 0
    /\ sinceCancel = 7
    /\ template = "eventBridge-schema-app"
    /\ lastStep = "NAME"

\* C30: run() returns undefined exactly when the run ended because the prompt
\* of the RUNTIME step yielded undefined; a run that ends through the NAME
\* step, which is with a name entered, has runtime, template and location
\* set and returns the result object. No other step ends a run.
C30_UndefinedOnlyFromRuntime ==
    wpc = "done" =>
        /\ lastStep \in {"RUNTIME", "NAME"}
        /\ (result = NoResult) <=> (lastStep = "RUNTIME" /\ runtime = Undefined)
        /\ lastStep = "NAME" =>
              /\ name # Undefined
              /\ MandatorySet
              /\ result = Accumulated

\* C30 witness: a run that went back from LOCATION and from TEMPLATE on its
\* way ended through NAME with a result object.
C30_Witness ==
    /\ wpc = "done"
    /\ lastStep = "NAME"
    /\ cancellations >= 2
    /\ Len(path) > Cardinality(Range(path)) + 1
    /\ result # NoResult
    /\ result.name = name

(***************************************************************************)
(* Claims about the result of CreateNewSamAppWizard                         *)
(***************************************************************************)

\* run() returned a result object.
Returned == wpc = "done" /\ result # NoResult

\* C31: whatever forward and backward navigation preceded it, a result whose
\* template is 'eventBridge-schema-app' has region, registryName and
\* schemaName set.
C31_SchemaAppResultComplete ==
    (Returned /\ result.template = "eventBridge-schema-app") =>
        /\ result.region # Undefined
        /\ result.registryName # Undefined
        /\ result.schemaName # Undefined

\* C31 witness: the run cancelled at one of the schema steps, went back, and
\* returned a result for the eventBridge template.
C31_Witness ==
    /\ Returned
    /\ result.template = "eventBridge-schema-app"
    /\ cancellations >= 1
    /\ \E i \in 1..(Len(path) - 1) :
          path[i] \in {"REGISTRY", "SCHEMA"} /\ Rank(path[i + 1]) < Rank(path[i])
    /\ result.schemaName # Undefined

C33_TemplatesFollowCurrentRuntime ==
    tplpc = "awaiting" =>
        offeredTemplates = IF currRuntime \in {"python3.7", "python3.6"}
                           THEN samLambdaTemplates
                           ELSE samLambdaTemplatesHelloWorld

(***************************************************************************)
(* Further claims about promptUserWithBusyMessage                           *)
(***************************************************************************)

\* C34: if a hide event fires while the populator is pending,
\* promptUserWithBusyMessage resolves to undefined without waiting for the
\* populator, so it settles even if the populator never settles; with no
\* hide event and a populator that stays pending it does not settle.
C34_HideSettlesWithoutPopulator ==
    /\ [][ (tpc = "waiting" /\ tpc' = "done" /\ hideWhileBusy) =>
              /\ outcome' = Resolved(NoChoices)
              /\ populator' = populator
          ]_allVars
    /\ hideWhileBusy ~> (outcome = Resolved(NoChoices))
    /\ []((bpc # "idle" /\ populator = "pending" /\ ~hideWhileBusy) =>
             outcome = Pending)

\* C34 witness: the operation has resolved to undefined after a hide event
\* and the populator is still pending.
C34_Witness ==
    /\ hideWhileBusy
    /\ populator = "pending"
    /\ bpc = "await"
    /\ tpc = "done"
    /\ outcome = Resolved(NoChoices)

\* C35: promptUserWithBusyMessage takes the picker out of its busy and
\* disabled state only when the populator completed before any hide event
\* (on the way to promptUser); on the path cancelled while busy the picker is
\* still busy and disabled when the operation resolves.
C35_BusyClearedOnlyOnCompletion ==
    /\ bpc \in {"await", "populated", "threw"} =>
          IF tpc = "done" /\ busyPromise = Resolved(TRUE)
          THEN enabled /\ ~busy
          ELSE ~enabled /\ busy
    /\ (hideWhileBusy /\ outcome # Pending) =>
          /\ outcome = Resolved(NoChoices)
          /\ ~enabled /\ busy

\* C35 witness: the operation resolved to undefined after a hide during
\* population and the hidden picker is still busy and disabled.
C35_Witness ==
    /\ hideWhileBusy
    /\ tpc = "done"
    /\ outcome = Resolved(NoChoices)
    /\ ~visible
    /\ busy
    /\ ~enabled

(***************************************************************************)
(* Claims about DefaultSamCliConfiguration                                  *)
(***************************************************************************)

\* C36: initialize writes nothing and leaves the stored location as it was
\* when a location is configured and a file exists at it; in every other
\* case it writes the location the location provider returned, undefined
\* included, exactly once.
C36_InitializeWritesOnceOrNever ==
    /\ Len(writes) <= 1
    /\ ipc = "done" =>
          IF configLocation \in SamCliPaths /\ configLocation \in files
          THEN writes = <<>> /\ samcliLocation = configLocation
          ELSE writes = <<detectedLocation>> /\ samcliLocation = detectedLocation

\* C36 witness: a location was configured, no file was there, the provider
\* found nothing, and initialize returned having written undefined once.
C36_Witness ==
    /\ ipc = "done"
    /\ configLocation = "/opt/sam"
    /\ files = {"/usr/local/bin/sam"}
    /\ detectedLocation = Undefined
    /\ writes = <<Undefined>>
    /\ samcliLocation = Undefined

(***************************************************************************)
(* Further claims about viewSchemaItem                                      *)
(***************************************************************************)

\* C37: no error leaves viewSchemaItem and the view telemetry is recorded
\* exactly once per call: whatever threw inside the try block, the catch
\* block runs, shows an error message and the finally block records
\* 'Failed'; when nothing threw, no message is shown and 'Succeeded' is
\* recorded; nothing is recorded before the finally block.
C37_RecordsResultOnce ==
    /\ [][ /\ (vpc \in {"describe", "write", "show"} /\ thrownBy' # thrownBy) =>
                 vpc' = "catch"
           /\ vpc = "catch" =>
                 /\ vpc' = "finally"
                 /\ viewResult' = "Failed"
                 /\ errorMessages' = <<node.schemaName>>
           /\ vpc = "finally" =>
                 /\ vpc' = "done"
                 /\ recorded' = <<viewResult>>
          ]_allVars
    /\ [](vpc # "done" => recorded = <<>>)
    /\ [](vpc = "done" =>
             IF thrownBy = "none"
             THEN recorded = <<"Succeeded">> /\ errorMessages = <<>>
             ELSE recorded = <<"Failed">> /\ Len(errorMessages) = 1)

\* C37 witness: the schema was described and written, opening the editor
\* threw, and the call ended with one error message and 'Failed' recorded.
C37_Witness ==
    /\ vpc = "done"
    /\ thrownBy = "showTextDocument"
    /\ schemaContentTempFile # Undefined
    /\ Len(opened) = 1
    /\ Len(errorMessages) = 1
    /\ recorded = <<"Failed">>

====
